---- MODULE Spec2Model ----
(***************************************************************************)
(* DiscordMinecraftLink: the Cloudflare Worker's four RPC handlers over    *)
(* the D1 tables, the Discord identity provider they call, and the         *)
(* Minecraft plugin's pre-login gate.                                      *)
(*                                                                         *)
(* Every `await` of a handler is a suspension point, so each handler is a  *)
(* sequence of steps (one per awaited datastore or provider call) and the  *)
(* steps of concurrent requests interleave freely.  Time is a logical      *)
(* clock in units of half the flow lifetime.  The createdAt columns are    *)
(* written but never read by any handler and are left out of the rows.     *)
(***************************************************************************)
EXTENDS Integers, FiniteSets, Sequences, TLC

\* ---------------------------------------------------------------- bounds
MaxTime == 2
\* Requests accepted in one run: by Spec, and by SpecFlows.
MaxStarts == 2
MaxFlowStarts == 3
MaxTokens == 3

\* ------------------------------------------------------ program constants
\* EXPIRY_DURATION_MS (15 minutes), in clock units.
EXPIRY_DURATION_MS == 2
MAX_CODE_GENERATION_ATTEMPTS == 5

\* ----------------------------------------------------------- input sets
Req == {"r1", "r2"}
UUIDs == {"u1", "u2"}
Codes == {"c1", "c2"}
Accounts == {"d1", "d2"}
\* The authorization code of a linkDiscordAccount request: one granted by
\* an account, or one the provider does not accept.
AuthCodes == Accounts \cup {"bad"}
DISCORD_GUILD_ID == "guild"

VARIABLES
    now,                \* Date.now()
    verificationFlows,  \* table verificationFlows
    discordUsers,       \* table discordUsers
    minecraftUsers,     \* table minecraftUsers
    connections,        \* table connections
    nextId,             \* AUTOINCREMENT counters, one per table
    issuedToken,        \* provider: the refresh token last issued per account
    req,                \* the requests in flight, one per slot
    starts,             \* requests accepted so far
    consumed,           \* history: the codes a successful link used up and no
                        \* createVerificationFlow has issued since
    login,              \* plugin: the pre-login events
    rpc,                \* handleRPC: the call in progress
    registry,           \* RPCHandlerRegistry.handlers: null (no element) or the map
    fetch,              \* discordFetch: the call in progress
    gen                 \* generateLinkingCode: the call in progress

vars == <<now, verificationFlows, discordUsers, minecraftUsers, connections,
          nextId, issuedToken, req, starts, consumed, login, rpc, registry,
          fetch, gen>>

dbVars == <<verificationFlows, discordUsers, minecraftUsers, connections, nextId>>
providerVars == <<issuedToken>>

\* ------------------------------------------------------------ the tables
\* The verificationFlows table with its primary key only.
FlowUniqueOK_IdOnly(rows) ==
    \A f, g \in rows : f.id = g.id => f = g

\* src/server/src/db/schema.ts: the unique indexes of each table.
FlowUniqueOK(rows) ==
    \A f, g \in rows :
        (f.linkingCode = g.linkingCode \/ f.minecraftUUID = g.minecraftUUID
         \/ f.id = g.id) => f = g

\* The connections table without its unique index on discordUserID.
ConnectionUniqueOK_MinecraftOnly(rows) ==
    \A c, d \in rows :
        (c.minecraftUserID = d.minecraftUserID \/ c.id = d.id) => c = d

ConnectionUniqueOK(rows) ==
    \A c, d \in rows :
        (c.discordUserID = d.discordUserID
         \/ c.minecraftUserID = d.minecraftUserID \/ c.id = d.id) => c = d

\* .get(): the first row of a result set, or undefined.
Get(rows) == IF rows = {} THEN {} ELSE {CHOOSE x \in rows : TRUE}

\* ------------------------------------------------------------- requests
Idle == [op |-> "idle", pc |-> "idle", now |-> 0, uuid |-> "-", code |-> "-",
         auth |-> "-", secret |-> <<>>, secretOk |-> FALSE, flow |-> {}, attempt |-> 0,
         tok |-> {}, who |-> "-", drec |-> {}, mrec |-> {}, conn |-> {},
         duser |-> {}, guilds |-> {}, prior |-> {}, batches |-> 0, error |-> "none",
         state |-> <<>>,
         result |-> "none", value |-> {}]

\* The handler returned: the locals are gone, the response stays (and, for
\* the properties, what the request was about and how far it got).
Return(r, res, val) ==
    [Idle EXCEPT !.op = r.op, !.pc = "done", !.uuid = r.uuid, !.code = r.code,
                 !.secret = r.secret,
                 !.prior = r.prior, !.guilds = r.guilds, !.batches = r.batches,
                 !.error = r.error, !.state = r.state,
                 !.flow = IF r.op = "linkDiscordAccount" /\ res = "Ok" THEN r.flow ELSE {},
                 !.result = res,
                 !.value = val]

Free(r) == req[r].pc \in {"idle", "done"}

\* src/server/src/utils/sharedSecret.ts: a secret is a sequence of bytes.
SHARED_SECRET == <<1, 2>>
Secrets == {<<1, 2>>, <<1, 3>>, <<1>>}

\* A comparison of the lengths only.
compare_LengthOnly(providedSecret) == Len(providedSecret) = Len(SHARED_SECRET)

compare(providedSecret) ==
    IF Len(providedSecret) # Len(SHARED_SECRET)
    THEN FALSE
    ELSE \A i \in 1..Len(SHARED_SECRET) : providedSecret[i] = SHARED_SECRET[i]

\* A datastore call either runs or rejects (tryCatch turns the rejection
\* into a failed Result); a rejected call changes no row.
DbOutcome == {"ok", "rejected"}

Accept(max) == starts < max /\ starts' = starts + 1

\* ------------------------------------------------ createVerificationFlow
\* The handler up to its first await: the secret check and Date.now().
CreateVerificationFlow_Start(r, max, uuid, secret) ==
    /\ Free(r)
    /\ Accept(max)
    /\ LET p == [Idle EXCEPT !.op = "createVerificationFlow", !.uuid = uuid,
                             !.secret = secret, !.secretOk = compare(secret)]
       IN req' = [req EXCEPT ![r] =
                    IF ~compare(secret)
                    THEN Return(p, "InvalidSharedSecret", {})
                    ELSE [p EXCEPT !.pc = "existingFlow", !.now = now,
                                   !.prior = {f \in verificationFlows :
                                                /\ f.minecraftUUID = uuid
                                                /\ f.expiresAt > now}]]
    /\ UNCHANGED <<now, dbVars, providerVars, consumed, login, rpc, registry, fetch, gen>>

\* The reuse lookup with a flow still counted at the instant it expires.
CreateVerificationFlow_ExistingFlow_Inclusive(r, db) ==
    /\ req[r].op = "createVerificationFlow" /\ req[r].pc = "existingFlow"
    /\ LET existingFlow == Get({f \in verificationFlows :
                                  /\ f.minecraftUUID = req[r].uuid
                                  /\ f.expiresAt >= req[r].now})
       IN req' = [req EXCEPT ![r] =
                    IF db = "rejected" THEN Return(@, "DatabaseError", {})
                    ELSE IF existingFlow # {}
                         THEN [@ EXCEPT !.pc = "update", !.flow = existingFlow]
                         ELSE [@ EXCEPT !.pc = "deletion"]]
    /\ UNCHANGED <<now, dbVars, providerVars, starts, consumed, login, rpc, registry, fetch, gen>>

\* select ... where minecraftUUID = uuid and expiresAt > now
CreateVerificationFlow_ExistingFlow(r, db) ==
    /\ req[r].op = "createVerificationFlow" /\ req[r].pc = "existingFlow"
    /\ LET existingFlow == Get({f \in verificationFlows :
                                  /\ f.minecraftUUID = req[r].uuid
                                  /\ f.expiresAt > req[r].now})
       IN req' = [req EXCEPT ![r] =
                    IF db = "rejected" THEN Return(@, "DatabaseError", {})
                    ELSE IF existingFlow # {}
                         THEN [@ EXCEPT !.pc = "update", !.flow = existingFlow]
                         ELSE [@ EXCEPT !.pc = "deletion"]]
    /\ UNCHANGED <<now, dbVars, providerVars, starts, consumed, login, rpc, registry, fetch, gen>>

\* update ... set expiresAt where id = flow.id; then the reuse response.
CreateVerificationFlow_Update(r, db) ==
    /\ req[r].op = "createVerificationFlow" /\ req[r].pc = "update"
    /\ LET flow == CHOOSE f \in req[r].flow : TRUE
           expiresAt == req[r].now + EXPIRY_DURATION_MS
       IN IF db = "rejected"
          THEN /\ req' = [req EXCEPT ![r] = Return(@, "DatabaseError", {})]
               /\ UNCHANGED verificationFlows
          ELSE /\ verificationFlows' =
                    {IF f.id = flow.id THEN [f EXCEPT !.expiresAt = expiresAt] ELSE f
                        : f \in verificationFlows}
               /\ req' = [req EXCEPT ![r] = Return(@, "Ok",
                            {[linkingCode |-> flow.linkingCode, expiresAt |-> expiresAt]})]
    /\ UNCHANGED <<now, discordUsers, minecraftUsers, connections, nextId,
                   providerVars, starts, consumed, login, rpc, registry, fetch, gen>>

\* delete ... where minecraftUUID = uuid; then the first generateLinkingCode().
CreateVerificationFlow_Deletion(r, db, linkingCode) ==
    /\ req[r].op = "createVerificationFlow" /\ req[r].pc = "deletion"
    /\ IF db = "rejected"
       THEN /\ req' = [req EXCEPT ![r] = Return(@, "DatabaseError", {})]
            /\ UNCHANGED verificationFlows
       ELSE /\ verificationFlows' =
                 {f \in verificationFlows : f.minecraftUUID # req[r].uuid}
            /\ req' = [req EXCEPT ![r] =
                         [@ EXCEPT !.pc = "existingCode", !.attempt = 0,
                                   !.code = linkingCode]]
    /\ UNCHANGED <<now, discordUsers, minecraftUsers, connections, nextId,
                   providerVars, starts, consumed, login, rpc, registry, fetch, gen>>

\* A collision check that retries on every collision, the expired ones too.
CreateVerificationFlow_ExistingCode_AlwaysRetrying(r, db, nextCode) ==
    /\ req[r].op = "createVerificationFlow" /\ req[r].pc = "existingCode"
    /\ LET codeEntry == Get({f \in verificationFlows : f.linkingCode = req[r].code})
       IN req' = [req EXCEPT ![r] =
                    IF db = "rejected" THEN Return(@, "DatabaseError", {})
                    ELSE IF codeEntry = {} THEN [@ EXCEPT !.pc = "insertion"]
                    ELSE IF @.attempt + 1 < MAX_CODE_GENERATION_ATTEMPTS
                         THEN [@ EXCEPT !.attempt = @ + 1, !.code = nextCode]
                    ELSE Return([@ EXCEPT !.code = "-"], "CodeGenerationFailed", {})]
    /\ UNCHANGED <<now, dbVars, providerVars, starts, consumed, login, rpc, registry, fetch, gen>>

\* select ... where linkingCode = linkingCode; a live collision retries with
\* a new code, or gives up after MAX_CODE_GENERATION_ATTEMPTS attempts.
CreateVerificationFlow_ExistingCode(r, db, nextCode) ==
    /\ req[r].op = "createVerificationFlow" /\ req[r].pc = "existingCode"
    /\ LET codeEntry == Get({f \in verificationFlows : f.linkingCode = req[r].code})
           live == \E f \in codeEntry : f.expiresAt > req[r].now
       IN req' = [req EXCEPT ![r] =
                    IF db = "rejected" THEN Return(@, "DatabaseError", {})
                    ELSE IF codeEntry = {} THEN [@ EXCEPT !.pc = "insertion"]
                    ELSE IF ~live
                         THEN [@ EXCEPT !.pc = "deleteColliding", !.flow = codeEntry]
                    ELSE IF @.attempt + 1 < MAX_CODE_GENERATION_ATTEMPTS
                         THEN [@ EXCEPT !.attempt = @ + 1, !.code = nextCode]
                    ELSE Return([@ EXCEPT !.code = "-"], "CodeGenerationFailed", {})]
    /\ UNCHANGED <<now, dbVars, providerVars, starts, consumed, login, rpc, registry, fetch, gen>>

\* delete ... where id = codeEntry.id (the expired colliding row)
CreateVerificationFlow_DeleteColliding(r, db) ==
    /\ req[r].op = "createVerificationFlow" /\ req[r].pc = "deleteColliding"
    /\ LET codeEntry == CHOOSE f \in req[r].flow : TRUE
       IN IF db = "rejected"
          THEN /\ req' = [req EXCEPT ![r] = Return(@, "DatabaseError", {})]
               /\ UNCHANGED verificationFlows
          ELSE /\ verificationFlows' = {f \in verificationFlows : f.id # codeEntry.id}
               /\ req' = [req EXCEPT ![r] = [@ EXCEPT !.pc = "insertion", !.flow = {}]]
    /\ UNCHANGED <<now, discordUsers, minecraftUsers, connections, nextId,
                   providerVars, starts, consumed, login, rpc, registry, fetch, gen>>

\* insert into verificationFlows; a unique index that the new row breaks
\* rejects the insert.
InsertFlow(rows, id, linkingCode, minecraftUUID, expiresAt) ==
    rows \cup {[id |-> id, linkingCode |-> linkingCode,
                minecraftUUID |-> minecraftUUID, expiresAt |-> expiresAt]}

CreateVerificationFlow_Insertion(r, db) ==
    /\ req[r].op = "createVerificationFlow" /\ req[r].pc = "insertion"
    /\ LET expiresAt == req[r].now + EXPIRY_DURATION_MS
           rows == InsertFlow(verificationFlows, nextId.flow, req[r].code,
                              req[r].uuid, expiresAt)
       IN IF db = "rejected" \/ ~FlowUniqueOK(rows)
          THEN /\ req' = [req EXCEPT ![r] = Return(@, "DatabaseError", {})]
               /\ UNCHANGED <<verificationFlows, nextId, consumed>>
          ELSE /\ verificationFlows' = rows
               /\ nextId' = [nextId EXCEPT !.flow = @ + 1]
               /\ consumed' = consumed \ {req[r].code}
               /\ req' = [req EXCEPT ![r] = Return(@, "Ok",
                            {[linkingCode |-> req[r].code, expiresAt |-> expiresAt]})]
    /\ UNCHANGED <<now, discordUsers, minecraftUsers, connections,
                   providerVars, starts, login, rpc, registry, fetch, gen>>

CreateVerificationFlow(max) ==
    \E r \in Req :
        \/ \E uuid \in UUIDs, secret \in Secrets :
              CreateVerificationFlow_Start(r, max, uuid, secret)
        \/ \E db \in DbOutcome :
              \/ CreateVerificationFlow_ExistingFlow(r, db)
              \/ CreateVerificationFlow_Update(r, db)
              \/ CreateVerificationFlow_DeleteColliding(r, db)
              \/ CreateVerificationFlow_Insertion(r, db)
              \/ \E linkingCode \in Codes :
                    \/ CreateVerificationFlow_Deletion(r, db, linkingCode)
                    \/ CreateVerificationFlow_ExistingCode(r, db, linkingCode)

\* ------------------------------------------------- generateLinkingCode
LENGTH == 8

CHARS == <<"a", "b", "c", "d", "e", "f", "g", "h", "i", "j", "k", "l", "m",
           "n", "o", "p", "q", "r", "s", "t", "u", "v", "w", "x", "y", "z",
           "0", "1", "2", "3", "4", "5", "6", "7", "8", "9">>

charsLength == Len(CHARS)

\* A bound whose remainder is taken by 256, so that every byte is accepted.
maxValid_EveryByte == 256 - (256 % 256)

maxValid == 256 - (256 % charsLength)

\* What crypto.getRandomValues may write into the array of LENGTH * 2
\* bytes: sixteen runs that together hold every byte value, an array of
\* rejected bytes only, one with a rejected byte at every other place and
\* one with four accepted bytes.
RandomValues ==
    {[i \in 1..(LENGTH * 2) |-> (LENGTH * 2) * k + i - 1] : k \in 0..15}
    \cup {[i \in 1..(LENGTH * 2) |-> 255],
          [i \in 1..(LENGTH * 2) |-> IF i % 2 = 0 THEN 252 ELSE i],
          [i \in 1..(LENGTH * 2) |-> IF i % 4 = 1 THEN 250 - i ELSE 253]}

GenIdle == [pc |-> "idle", code |-> <<>>, array |-> <<>>, arrayIndex |-> 0, byte |-> {}]

\* const array = new Uint8Array(LENGTH * 2); crypto.getRandomValues(array)
GenerateLinkingCode_Start(array) ==
    /\ gen.pc \in {"idle", "done"}
    /\ gen' = [GenIdle EXCEPT !.pc = "loop", !.array = array]
    /\ UNCHANGED <<now, dbVars, providerVars, req, starts, consumed, login, rpc,
                   registry, fetch>>

\* One turn of the while loop: new bytes when the array is used up, the
\* next byte, the symbol when the byte is accepted; the code is returned
\* once it has LENGTH symbols.
GenerateLinkingCode_Loop(refill) ==
    /\ gen.pc = "loop"
    /\ LET array == IF gen.arrayIndex >= Len(gen.array) THEN refill ELSE gen.array
           arrayIndex == IF gen.arrayIndex >= Len(gen.array) THEN 0 ELSE gen.arrayIndex
           byte == array[arrayIndex + 1]
           code == IF byte < maxValid
                   THEN Append(gen.code, CHARS[(byte % charsLength) + 1])
                   ELSE gen.code
       IN gen' = [pc |-> IF Len(code) < LENGTH THEN "loop" ELSE "done",
                  code |-> code, array |-> array, arrayIndex |-> arrayIndex + 1,
                  byte |-> {byte}]
    /\ UNCHANGED <<now, dbVars, providerVars, req, starts, consumed, login, rpc,
                   registry, fetch>>

\* ----------------------------------------------------- the identity provider
\* What the Discord client functions of utils/discord return on failure.
DiscordFetchError == {"network-error", "invalid-json", "retries-exhausted", "timeout"}
DiscordCreateOAuth2TokenWithCodeError ==
    DiscordFetchError \cup {"invalid-auth", "unexpected-response", "unknown-error",
                            "invalid-code"}
DiscordCreateOAuth2TokenWithRefreshTokenError ==
    DiscordFetchError \cup {"invalid-auth", "unexpected-response", "unknown-error"}
DiscordFetchUserDataError ==
    DiscordFetchError \cup {"invalid-auth", "insufficient-permissions",
                            "unexpected-response"}
DiscordFetchUserGuildsError ==
    DiscordFetchError \cup {"invalid-auth", "insufficient-permissions",
                            "unexpected-response"}

\* The guild lists the provider may answer with: accounts join and leave the
\* guild at any time, so either list can come back for any account.
GuildLists == {{DISCORD_GUILD_ID, "other"}, {"other"}}

\* --------------------------------------------------- getDiscordOAuthLink
GetDiscordOAuthLink_Start(r, max, linkingCode) ==
    /\ Free(r)
    /\ Accept(max)
    /\ req' = [req EXCEPT ![r] =
                 [Idle EXCEPT !.op = "getDiscordOAuthLink", !.pc = "dbResult",
                              !.code = linkingCode, !.now = now]]
    /\ UNCHANGED <<now, dbVars, providerVars, consumed, login, rpc, registry, fetch, gen>>

\* URLSearchParams: a sequence of <<key, value>> pairs; a value is text, and
\* the text of a number keeps the number.
Text(kind, n, s) == [kind |-> kind, n |-> n, s |-> s]
NumberToString(n) == Text("number", n, "")
Str(s) == Text("string", 0, s)
EmptyText == Text("empty", 0, "")

\* params.get(key): the first value of the key, or null (the empty set).
ParamsGet(params, key) ==
    IF \E i \in 1..Len(params) : params[i][1] = key
    THEN {params[CHOOSE i \in 1..Len(params) :
                    /\ params[i][1] = key
                    /\ \A j \in 1..(i - 1) : params[j][1] # key][2]}
    ELSE {}

\* encodeOAuthState: the URL-form-encoded pairs of the state.
encodeOAuthState(state) ==
    <<<<"linkingCode", Str(state.linkingCode)>>,
      <<"timestamp", NumberToString(state.timestamp)>>>>

\* The step that takes a flow expiring at this very instant as active.
GetDiscordOAuthLink_DbResult_Late(r, db) ==
    /\ req[r].op = "getDiscordOAuthLink" /\ req[r].pc = "dbResult"
    /\ LET flow == Get({f \in verificationFlows : f.linkingCode = req[r].code})
           expired == \E f \in flow : f.expiresAt < req[r].now
       IN req' = [req EXCEPT ![r] =
                    IF db = "rejected" THEN Return(@, "DatabaseError", {})
                    ELSE IF flow = {} \/ expired
                         THEN Return(@, "InvalidLinkingCode", {})
                    ELSE Return(@, "Ok",
                           {[state |-> encodeOAuthState(
                                [linkingCode |-> req[r].code, timestamp |-> req[r].now])]})]
    /\ UNCHANGED <<now, dbVars, providerVars, starts, consumed, login, rpc, registry, fetch, gen>>

\* select ... where linkingCode = linkingCode; then the expiry test.
GetDiscordOAuthLink_DbResult(r, db) ==
    /\ req[r].op = "getDiscordOAuthLink" /\ req[r].pc = "dbResult"
    /\ LET flow == Get({f \in verificationFlows : f.linkingCode = req[r].code})
           expired == \E f \in flow : f.expiresAt <= req[r].now
       IN req' = [req EXCEPT ![r] =
                    IF db = "rejected" THEN Return(@, "DatabaseError", {})
                    ELSE IF flow = {} \/ expired
                         THEN Return(@, "InvalidLinkingCode", {})
                    ELSE Return(@, "Ok",
                           {[state |-> encodeOAuthState(
                                [linkingCode |-> req[r].code, timestamp |-> req[r].now])]})]
    /\ UNCHANGED <<now, dbVars, providerVars, starts, consumed, login, rpc, registry, fetch, gen>>

GetDiscordOAuthLink(max) ==
    \E r \in Req :
        \/ \E linkingCode \in Codes : GetDiscordOAuthLink_Start(r, max, linkingCode)
        \/ \E db \in DbOutcome : GetDiscordOAuthLink_DbResult(r, db)

\* ---------------------------------------------------- linkDiscordAccount
\* z.coerce.number(): Number(value), rejected when it is NaN.  Number(null)
\* and Number("") are 0.
CoerceNumber(v) ==
    IF v = {} THEN {0}
    ELSE LET t == CHOOSE x \in v : TRUE
         IN CASE t.kind = "number" -> {t.n}
              [] t.kind = "empty" -> {0}
              [] OTHER -> {}

\* z.string(): null is rejected, any text (also the empty one) is accepted.
ParseString(v) ==
    IF v = {} THEN {}
    ELSE LET t == CHOOSE x \in v : TRUE
         IN CASE t.kind = "string" -> {t.s}
              [] t.kind = "empty" -> {""}
              [] OTHER -> {"number"}

\* decodeOAuthState: the parsed state, or null (the empty set).
decodeOAuthState(state) ==
    LET linkingCode == ParseString(ParamsGet(state, "linkingCode"))
        timestamp == CoerceNumber(ParamsGet(state, "timestamp"))
    IN IF linkingCode = {} \/ timestamp = {} THEN {}
       ELSE {[linkingCode |-> CHOOSE c \in linkingCode : TRUE,
              timestamp |-> CHOOSE t \in timestamp : TRUE]}

\* The state strings a caller may send back.
StateInputs ==
    {encodeOAuthState([linkingCode |-> c, timestamp |-> 0]) : c \in Codes}
    \cup {<<>>,
          <<<<"linkingCode", Str("c1")>>>>,
          <<<<"linkingCode", Str("c1")>>, <<"timestamp", EmptyText>>>>,
          <<<<"linkingCode", Str("c1")>>, <<"timestamp", Str("abc")>>>>,
          <<<<"timestamp", NumberToString(0)>>>>}

LinkDiscordAccount_Start(r, max, code, state) ==
    /\ Free(r)
    /\ Accept(max)
    /\ LET decoded == decodeOAuthState(state)
           p == [Idle EXCEPT !.op = "linkDiscordAccount", !.auth = code, !.now = now,
                             !.state = state]
       IN req' = [req EXCEPT ![r] =
                    IF decoded = {}
                    THEN Return(p, "InvalidState", {})
                    ELSE LET linkingCode == (CHOOSE d \in decoded : TRUE).linkingCode
                         IN [p EXCEPT !.pc = "flowResult", !.code = linkingCode,
                                      !.prior = {req[o].result : o \in
                                                   {x \in Req \ {r} :
                                                      /\ req[x].op = "linkDiscordAccount"
                                                      /\ req[x].pc = "done"
                                                      /\ req[x].code = linkingCode}}]]
    /\ UNCHANGED <<now, dbVars, providerVars, consumed, login, rpc, registry, fetch, gen>>

\* The select without the expiry condition.
LinkDiscordAccount_FlowResult_AnyAge(r, db) ==
    /\ req[r].op = "linkDiscordAccount" /\ req[r].pc = "flowResult"
    /\ LET flow == Get({f \in verificationFlows : f.linkingCode = req[r].code})
       IN req' = [req EXCEPT ![r] =
                    IF db = "rejected" THEN Return(@, "DatabaseError", {})
                    ELSE IF flow = {} THEN Return(@, "InvalidLinkingCode", {})
                    ELSE [@ EXCEPT !.pc = "tokenResult", !.flow = flow,
                                   !.uuid = (CHOOSE f \in flow : TRUE).minecraftUUID]]
    /\ UNCHANGED <<now, dbVars, providerVars, starts, consumed, login, rpc, registry, fetch, gen>>

\* select ... where linkingCode = state.linkingCode and expiresAt > now
LinkDiscordAccount_FlowResult(r, db) ==
    /\ req[r].op = "linkDiscordAccount" /\ req[r].pc = "flowResult"
    /\ LET flow == Get({f \in verificationFlows :
                          /\ f.linkingCode = req[r].code
                          /\ f.expiresAt > req[r].now})
       IN req' = [req EXCEPT ![r] =
                    IF db = "rejected" THEN Return(@, "DatabaseError", {})
                    ELSE IF flow = {} THEN Return(@, "InvalidLinkingCode", {})
                    ELSE [@ EXCEPT !.pc = "tokenResult", !.flow = flow,
                                   !.uuid = (CHOOSE f \in flow : TRUE).minecraftUUID]]
    /\ UNCHANGED <<now, dbVars, providerVars, starts, consumed, login, rpc, registry, fetch, gen>>

\* discord.createDiscordOAuth2TokenWithCode: the provider issues the
\* account's next refresh token, or the call fails.
LinkDiscordAccount_TokenResult(r, error) ==
    /\ req[r].op = "linkDiscordAccount" /\ req[r].pc = "tokenResult"
    /\ \/ /\ error = "none"
          /\ req[r].auth \in Accounts
          /\ issuedToken[req[r].auth] < MaxTokens
          /\ issuedToken' = [issuedToken EXCEPT ![req[r].auth] = @ + 1]
          /\ req' = [req EXCEPT ![r] =
                       [@ EXCEPT !.pc = "userResult",
                                 !.tok = {[accessToken |-> req[r].auth,
                                           refreshToken |->
                                              <<req[r].auth, issuedToken[req[r].auth] + 1>>]}]]
       \/ /\ error \in DiscordCreateOAuth2TokenWithCodeError
          /\ error = "invalid-code" => req[r].auth \notin Accounts
          /\ req' = [req EXCEPT ![r] =
                       IF error = "invalid-code"
                       THEN Return(@, "InvalidCode", {})
                       ELSE Return(@, "DiscordError", {})]
          /\ UNCHANGED issuedToken
    /\ UNCHANGED <<now, dbVars, starts, consumed, login, rpc, registry, fetch, gen>>

\* discord.fetchDiscordUserData with the access token
LinkDiscordAccount_UserResult(r, error) ==
    /\ req[r].op = "linkDiscordAccount" /\ req[r].pc = "userResult"
    /\ LET token == CHOOSE t \in req[r].tok : TRUE
       IN req' = [req EXCEPT ![r] =
                    IF error = "none"
                    THEN [@ EXCEPT !.pc = "guildMembershipResult",
                                   !.who = token.accessToken]
                    ELSE Return(@, "DiscordError", {})]
    /\ UNCHANGED <<now, dbVars, providerVars, starts, consumed, login, rpc, registry, fetch, gen>>

\* The step without the membership test.
LinkDiscordAccount_GuildMembershipResult_Untested(r, error, guilds) ==
    /\ req[r].op = "linkDiscordAccount" /\ req[r].pc = "guildMembershipResult"
    /\ req' = [req EXCEPT ![r] =
                 IF error # "none" THEN Return(@, "DiscordError", {})
                 ELSE [@ EXCEPT !.pc = "batch", !.guilds = guilds]]
    /\ UNCHANGED <<now, dbVars, providerVars, starts, consumed, login, rpc, registry, fetch, gen>>

\* The step that uses the flow up when the account is not a member.
LinkDiscordAccount_GuildMembershipResult_Consuming(r, error, guilds) ==
    /\ req[r].op = "linkDiscordAccount" /\ req[r].pc = "guildMembershipResult"
    /\ LET isMember == \E guild \in guilds : guild = DISCORD_GUILD_ID
           flow == CHOOSE f \in req[r].flow : TRUE
       IN /\ req' = [req EXCEPT ![r] =
                       IF error # "none" THEN Return(@, "DiscordError", {})
                       ELSE IF ~isMember THEN Return(@, "AccessDenied", {})
                       ELSE [@ EXCEPT !.pc = "batch", !.guilds = guilds]]
          /\ verificationFlows' =
                IF error = "none" /\ ~isMember
                THEN {f \in verificationFlows : f.id # flow.id}
                ELSE verificationFlows
    /\ UNCHANGED <<now, discordUsers, minecraftUsers, connections, nextId,
                   providerVars, starts, consumed, login, rpc, registry, fetch, gen>>

\* discord.fetchDiscordUserGuildsData, then the membership test
LinkDiscordAccount_GuildMembershipResult(r, error, guilds) ==
    /\ req[r].op = "linkDiscordAccount" /\ req[r].pc = "guildMembershipResult"
    /\ LET isMember == \E guild \in guilds : guild = DISCORD_GUILD_ID
       IN req' = [req EXCEPT ![r] =
                    IF error # "none" THEN Return(@, "DiscordError", {})
                    ELSE IF ~isMember THEN Return(@, "AccessDenied", {})
                    ELSE [@ EXCEPT !.pc = "batch", !.guilds = guilds]]
    /\ UNCHANGED <<now, dbVars, providerVars, starts, consumed, login, rpc, registry, fetch, gen>>

\* insert into discordUsers ... on conflict (discordID) do update set
\* discordRefreshToken; returning the row.
UpsertDiscordUser(rows, id, discordID, refreshToken) ==
    IF \E u \in rows : u.discordID = discordID
    THEN {IF u.discordID = discordID
          THEN [u EXCEPT !.discordRefreshToken = refreshToken] ELSE u : u \in rows}
    ELSE rows \cup {[id |-> id, discordID |-> discordID,
                     discordRefreshToken |-> refreshToken]}

\* insert into minecraftUsers ... on conflict (minecraftUUID) do update set
\* minecraftUUID; returning the row.
UpsertMinecraftUser(rows, id, minecraftUUID) ==
    IF \E u \in rows : u.minecraftUUID = minecraftUUID
    THEN rows
    ELSE rows \cup {[id |-> id, minecraftUUID |-> minecraftUUID]}

\* The first db.batch: both upserts, in one transaction.
LinkDiscordAccount_Batch(r, db) ==
    /\ req[r].op = "linkDiscordAccount" /\ req[r].pc = "batch"
    /\ LET token == CHOOSE t \in req[r].tok : TRUE
           flow == CHOOSE f \in req[r].flow : TRUE
           dRows == UpsertDiscordUser(discordUsers, nextId.discordUser,
                                      req[r].who, token.refreshToken)
           mRows == UpsertMinecraftUser(minecraftUsers, nextId.minecraftUser,
                                        flow.minecraftUUID)
       IN IF db = "rejected"
          THEN /\ req' = [req EXCEPT ![r] = Return(@, "DatabaseError", {})]
               /\ UNCHANGED <<discordUsers, minecraftUsers, nextId>>
          ELSE /\ discordUsers' = dRows
               /\ minecraftUsers' = mRows
               /\ nextId' = [nextId EXCEPT
                    !.discordUser = IF Cardinality(dRows) > Cardinality(discordUsers)
                                    THEN @ + 1 ELSE @,
                    !.minecraftUser = IF Cardinality(mRows) > Cardinality(minecraftUsers)
                                      THEN @ + 1 ELSE @]
               /\ req' = [req EXCEPT ![r] =
                    [@ EXCEPT !.pc = "connection", !.batches = 1,
                              !.drec = {u.id : u \in {x \in dRows : x.discordID = req[r].who}},
                              !.mrec = {u.id : u \in {x \in mRows :
                                            x.minecraftUUID = flow.minecraftUUID}}]]
    /\ UNCHANGED <<now, verificationFlows, connections, providerVars, starts, consumed, login, rpc, registry, fetch, gen>>

\* The insert with "on conflict do nothing".
UpsertConnection_DoNothing(rows, id, discordUserID, minecraftUserID) ==
    IF \E c \in rows : c.minecraftUserID = minecraftUserID
    THEN rows
    ELSE rows \cup {[id |-> id, discordUserID |-> discordUserID,
                     minecraftUserID |-> minecraftUserID]}

\* insert into connections ... on conflict (minecraftUserID) do update set
\* createdAt, discordUserID.
UpsertConnection(rows, id, discordUserID, minecraftUserID) ==
    IF \E c \in rows : c.minecraftUserID = minecraftUserID
    THEN {IF c.minecraftUserID = minecraftUserID
          THEN [c EXCEPT !.discordUserID = discordUserID] ELSE c : c \in rows}
    ELSE rows \cup {[id |-> id, discordUserID |-> discordUserID,
                     minecraftUserID |-> minecraftUserID]}

\* The second db.batch: the connection upsert and the flow deletion, in one
\* transaction; a broken unique index rolls both back.
LinkDiscordAccount_Connection(r, db) ==
    /\ req[r].op = "linkDiscordAccount" /\ req[r].pc = "connection"
    /\ LET flow == CHOOSE f \in req[r].flow : TRUE
           discordRecord == CHOOSE d \in req[r].drec : TRUE
           minecraftRecord == CHOOSE m \in req[r].mrec : TRUE
           rows == UpsertConnection(connections, nextId.connection,
                                    discordRecord, minecraftRecord)
       IN IF db = "rejected" \/ ~ConnectionUniqueOK(rows)
          THEN /\ req' = [req EXCEPT ![r] = Return(@, "DatabaseError", {})]
               /\ UNCHANGED <<connections, verificationFlows, nextId, consumed>>
          ELSE /\ connections' = rows
               /\ verificationFlows' = {f \in verificationFlows : f.id # flow.id}
               /\ nextId' = [nextId EXCEPT
                    !.connection = IF Cardinality(rows) > Cardinality(connections)
                                   THEN @ + 1 ELSE @]
               /\ consumed' = consumed \cup {flow.linkingCode}
               /\ req' = [req EXCEPT ![r] =
                    Return([@ EXCEPT !.batches = 2], "Ok",
                           {[discordUsername |-> req[r].who]})]
    /\ UNCHANGED <<now, discordUsers, minecraftUsers, providerVars, starts, login, rpc, registry, fetch, gen>>

LinkDiscordAccount(max) ==
    \E r \in Req :
        \/ \E code \in AuthCodes, state \in StateInputs :
              LinkDiscordAccount_Start(r, max, code, state)
        \/ \E db \in DbOutcome :
              \/ LinkDiscordAccount_FlowResult(r, db)
              \/ LinkDiscordAccount_Batch(r, db)
              \/ LinkDiscordAccount_Connection(r, db)
        \/ \E error \in {"none"} \cup DiscordCreateOAuth2TokenWithCodeError :
              LinkDiscordAccount_TokenResult(r, error)
        \/ \E error \in {"none"} \cup DiscordFetchUserDataError :
              LinkDiscordAccount_UserResult(r, error)
        \/ \E error \in {"none"} \cup DiscordFetchUserGuildsError, guilds \in GuildLists :
              LinkDiscordAccount_GuildMembershipResult(r, error, guilds)

\* ------------------------------------------------------ verifyConnection
VerifyConnection_Start(r, max, uuid, secret) ==
    /\ Free(r)
    /\ Accept(max)
    /\ LET p == [Idle EXCEPT !.op = "verifyConnection", !.uuid = uuid,
                             !.secret = secret, !.secretOk = compare(secret)]
       IN req' = [req EXCEPT ![r] =
                    IF ~compare(secret)
                    THEN Return(p, "InvalidSharedSecret", {})
                    ELSE [p EXCEPT !.pc = "minecraftUserResult"]]
    /\ UNCHANGED <<now, dbVars, providerVars, consumed, login, rpc, registry, fetch, gen>>

\* select from minecraftUsers where minecraftUUID = uuid
VerifyConnection_MinecraftUserResult(r, db) ==
    /\ req[r].op = "verifyConnection" /\ req[r].pc = "minecraftUserResult"
    /\ LET minecraftUser == Get({m \in minecraftUsers : m.minecraftUUID = req[r].uuid})
       IN req' = [req EXCEPT ![r] =
                    IF db = "rejected" THEN Return(@, "DatabaseError", {})
                    ELSE IF minecraftUser = {} THEN Return(@, "NotLinked", {})
                    ELSE [@ EXCEPT !.pc = "connectionResult",
                                   !.mrec = {m.id : m \in minecraftUser}]]
    /\ UNCHANGED <<now, dbVars, providerVars, starts, consumed, login, rpc, registry, fetch, gen>>

\* The step that reports a missing connection as a refusal of access.
VerifyConnection_ConnectionResult_Denying(r, db) ==
    /\ req[r].op = "verifyConnection" /\ req[r].pc = "connectionResult"
    /\ LET connection == Get({c \in connections : c.minecraftUserID \in req[r].mrec})
       IN req' = [req EXCEPT ![r] =
                    IF db = "rejected" THEN Return(@, "DatabaseError", {})
                    ELSE IF connection = {} THEN Return(@, "AccessDenied", {})
                    ELSE [@ EXCEPT !.pc = "discordUserResult", !.conn = connection]]
    /\ UNCHANGED <<now, dbVars, providerVars, starts, consumed, login, rpc, registry, fetch, gen>>

\* select from connections where minecraftUserID = minecraftUser.id
VerifyConnection_ConnectionResult(r, db) ==
    /\ req[r].op = "verifyConnection" /\ req[r].pc = "connectionResult"
    /\ LET connection == Get({c \in connections : c.minecraftUserID \in req[r].mrec})
       IN req' = [req EXCEPT ![r] =
                    IF db = "rejected" THEN Return(@, "DatabaseError", {})
                    ELSE IF connection = {} THEN Return(@, "NotLinked", {})
                    ELSE [@ EXCEPT !.pc = "discordUserResult", !.conn = connection]]
    /\ UNCHANGED <<now, dbVars, providerVars, starts, consumed, login, rpc, registry, fetch, gen>>

\* select from discordUsers where id = connection.discordUserID; then the
\* stored refresh token must be there.
VerifyConnection_DiscordUserResult(r, db) ==
    /\ req[r].op = "verifyConnection" /\ req[r].pc = "discordUserResult"
    /\ LET connection == CHOOSE c \in req[r].conn : TRUE
           discordUser == Get({d \in discordUsers : d.id = connection.discordUserID})
       IN req' = [req EXCEPT ![r] =
                    IF db = "rejected" THEN Return(@, "DatabaseError", {})
                    ELSE IF discordUser = {} THEN Return(@, "DatabaseError", {})
                    ELSE IF \E d \in discordUser : d.discordRefreshToken = <<>>
                         THEN Return(@, "InvalidAuth", {})
                    ELSE [@ EXCEPT !.pc = "tokenResult", !.duser = discordUser]]
    /\ UNCHANGED <<now, dbVars, providerVars, starts, consumed, login, rpc, registry, fetch, gen>>

\* discord.createDiscordOAuth2TokenWithRefreshToken: the provider takes the
\* refresh token it issued last for the account and issues the next one.
VerifyConnection_TokenResult(r, error) ==
    /\ req[r].op = "verifyConnection" /\ req[r].pc = "tokenResult"
    /\ LET discordUser == CHOOSE d \in req[r].duser : TRUE
           refreshToken == discordUser.discordRefreshToken
           account == refreshToken[1]
       IN \/ /\ error = "none"
             /\ refreshToken[2] = issuedToken[account]
             /\ issuedToken[account] < MaxTokens
             /\ issuedToken' = [issuedToken EXCEPT ![account] = @ + 1]
             /\ req' = [req EXCEPT ![r] =
                          [@ EXCEPT !.pc = "refreshUpdate",
                                    !.tok = {[accessToken |-> account,
                                              refreshToken |->
                                                 <<account, issuedToken[account] + 1>>]}]]
          \/ /\ error \in DiscordCreateOAuth2TokenWithRefreshTokenError
             /\ req' = [req EXCEPT ![r] =
                          IF error = "invalid-auth"
                          THEN Return([@ EXCEPT !.error = error], "InvalidAuth", {})
                          ELSE Return([@ EXCEPT !.error = error], "DiscordError", {})]
             /\ UNCHANGED issuedToken
    /\ UNCHANGED <<now, dbVars, starts, consumed, login, rpc, registry, fetch, gen>>

\* The step that goes on without storing the new refresh token.
VerifyConnection_RefreshUpdate_Skipped(r, db) ==
    /\ req[r].op = "verifyConnection" /\ req[r].pc = "refreshUpdate"
    /\ req' = [req EXCEPT ![r] =
                 IF db = "rejected" THEN Return(@, "DatabaseError", {})
                 ELSE [@ EXCEPT !.pc = "guildsResult"]]
    /\ UNCHANGED <<now, dbVars, providerVars, starts, consumed, login, rpc, registry, fetch, gen>>

\* update discordUsers set discordRefreshToken where id = discordUser.id
VerifyConnection_RefreshUpdate(r, db) ==
    /\ req[r].op = "verifyConnection" /\ req[r].pc = "refreshUpdate"
    /\ LET discordUser == CHOOSE d \in req[r].duser : TRUE
           token == CHOOSE t \in req[r].tok : TRUE
       IN IF db = "rejected"
          THEN /\ req' = [req EXCEPT ![r] = Return(@, "DatabaseError", {})]
               /\ UNCHANGED discordUsers
          ELSE /\ discordUsers' =
                    {IF d.id = discordUser.id
                     THEN [d EXCEPT !.discordRefreshToken = token.refreshToken]
                     ELSE d : d \in discordUsers}
               /\ req' = [req EXCEPT ![r] = [@ EXCEPT !.pc = "guildsResult"]]
    /\ UNCHANGED <<now, verificationFlows, minecraftUsers, connections, nextId,
                   providerVars, starts, consumed, login, rpc, registry, fetch, gen>>

\* The step without the membership test.
VerifyConnection_GuildsResult_Untested(r, error, guilds) ==
    /\ req[r].op = "verifyConnection" /\ req[r].pc = "guildsResult"
    /\ req' = [req EXCEPT ![r] =
                 IF error = "invalid-auth"
                 THEN Return([@ EXCEPT !.error = error], "InvalidAuth", {})
                 ELSE IF error # "none"
                 THEN Return([@ EXCEPT !.error = error], "DiscordError", {})
                 ELSE Return([@ EXCEPT !.guilds = guilds], "Ok", {})]
    /\ UNCHANGED <<now, dbVars, providerVars, starts, consumed, login, rpc, registry, fetch, gen>>

\* The step that answers DiscordError to every failure of the fetch.
VerifyConnection_GuildsResult_AllDiscordError(r, error, guilds) ==
    /\ req[r].op = "verifyConnection" /\ req[r].pc = "guildsResult"
    /\ LET isMember == \E guild \in guilds : guild = DISCORD_GUILD_ID
       IN req' = [req EXCEPT ![r] =
                    IF error # "none"
                    THEN Return([@ EXCEPT !.error = error], "DiscordError", {})
                    ELSE IF ~isMember
                         THEN [@ EXCEPT !.pc = "deleteResult", !.guilds = guilds]
                    ELSE Return([@ EXCEPT !.guilds = guilds], "Ok", {})]
    /\ UNCHANGED <<now, dbVars, providerVars, starts, consumed, login, rpc, registry, fetch, gen>>

\* discord.fetchDiscordUserGuildsData with the new access token, then the
\* membership test.
VerifyConnection_GuildsResult(r, error, guilds) ==
    /\ req[r].op = "verifyConnection" /\ req[r].pc = "guildsResult"
    /\ LET isMember == \E guild \in guilds : guild = DISCORD_GUILD_ID
       IN req' = [req EXCEPT ![r] =
                    IF error = "invalid-auth"
                    THEN Return([@ EXCEPT !.error = error], "InvalidAuth", {})
                    ELSE IF error # "none"
                    THEN Return([@ EXCEPT !.error = error], "DiscordError", {})
                    ELSE IF ~isMember
                         THEN [@ EXCEPT !.pc = "deleteResult", !.guilds = guilds]
                    ELSE Return([@ EXCEPT !.guilds = guilds], "Ok", {})]
    /\ UNCHANGED <<now, dbVars, providerVars, starts, consumed, login, rpc, registry, fetch, gen>>

\* The step that returns AccessDenied and keeps the connection.
VerifyConnection_DeleteResult_Keeping(r, db) ==
    /\ req[r].op = "verifyConnection" /\ req[r].pc = "deleteResult"
    /\ req' = [req EXCEPT ![r] =
                 IF db = "rejected" THEN Return(@, "DatabaseError", {})
                 ELSE Return(@, "AccessDenied", {})]
    /\ UNCHANGED <<now, dbVars, providerVars, starts, consumed, login, rpc, registry, fetch, gen>>

\* The step that deletes the minecraftUsers row along with the connection.
VerifyConnection_DeleteResult_DeletingUser(r, db) ==
    /\ req[r].op = "verifyConnection" /\ req[r].pc = "deleteResult"
    /\ LET connection == CHOOSE c \in req[r].conn : TRUE
       IN IF db = "rejected"
          THEN /\ req' = [req EXCEPT ![r] = Return(@, "DatabaseError", {})]
               /\ UNCHANGED <<connections, minecraftUsers>>
          ELSE /\ connections' = {c \in connections : c.id # connection.id}
               /\ minecraftUsers' =
                     {m \in minecraftUsers : m.id # connection.minecraftUserID}
               /\ req' = [req EXCEPT ![r] = Return(@, "AccessDenied", {})]
    /\ UNCHANGED <<now, verificationFlows, discordUsers, nextId,
                   providerVars, starts, consumed, login, rpc, registry, fetch, gen>>

\* delete from connections where id = connection.id
VerifyConnection_DeleteResult(r, db) ==
    /\ req[r].op = "verifyConnection" /\ req[r].pc = "deleteResult"
    /\ LET connection == CHOOSE c \in req[r].conn : TRUE
       IN IF db = "rejected"
          THEN /\ req' = [req EXCEPT ![r] = Return(@, "DatabaseError", {})]
               /\ UNCHANGED connections
          ELSE /\ connections' = {c \in connections : c.id # connection.id}
               /\ req' = [req EXCEPT ![r] = Return(@, "AccessDenied", {})]
    /\ UNCHANGED <<now, verificationFlows, discordUsers, minecraftUsers, nextId,
                   providerVars, starts, consumed, login, rpc, registry, fetch, gen>>

VerifyConnection(max) ==
    \E r \in Req :
        \/ \E uuid \in UUIDs, secret \in Secrets :
              VerifyConnection_Start(r, max, uuid, secret)
        \/ \E db \in DbOutcome :
              \/ VerifyConnection_MinecraftUserResult(r, db)
              \/ VerifyConnection_ConnectionResult(r, db)
              \/ VerifyConnection_DiscordUserResult(r, db)
              \/ VerifyConnection_RefreshUpdate(r, db)
              \/ VerifyConnection_DeleteResult(r, db)
        \/ \E error \in {"none"} \cup DiscordCreateOAuth2TokenWithRefreshTokenError :
              VerifyConnection_TokenResult(r, error)
        \/ \E error \in {"none"} \cup DiscordFetchUserGuildsError, guilds \in GuildLists :
              VerifyConnection_GuildsResult(r, error, guilds)

Tick ==
    /\ now < MaxTime
    /\ now' = now + 1
    /\ UNCHANGED <<dbVars, providerVars, req, starts, consumed, login, rpc, registry, fetch, gen>>

\* --------------------------------------------------------------- handleRPC
\* A JSON value as far as the schemas look at it: its type, and the number or
\* the text it is.  "undefined" is a member that is not there.
Json(kind, n, s) == [kind |-> kind, n |-> n, s |-> s]
Undefined == Json("undefined", 0, "")
Null == Json("null", 0, "")
JsonNumber(n) == Json("number", n, "")
JsonString(s) == Json("string", 0, s)
JsonTrue == Json("boolean", 1, "")

\* The params member: absent, or an object with some of the members the four
\* parameter schemas name.
Params(kind, minecraftUUID, sharedSecret, linkingCode, code, state) ==
    [kind |-> kind, minecraftUUID |-> minecraftUUID, sharedSecret |-> sharedSecret,
     linkingCode |-> linkingCode, code |-> code, state |-> state]

ParamsInputs ==
    {Params("undefined", Undefined, Undefined, Undefined, Undefined, Undefined),
     Params("object", Undefined, Undefined, Undefined, Undefined, Undefined),
     Params("object", JsonString("u1"), JsonString("secret"), Undefined, Undefined, Undefined),
     Params("object", JsonString("not-a-uuid"), JsonString("secret"), Undefined, Undefined, Undefined),
     Params("object", JsonString("u1"), JsonNumber(1), Undefined, Undefined, Undefined),
     Params("object", Undefined, Undefined, JsonString("c1"), Undefined, Undefined),
     Params("object", Undefined, Undefined, Undefined, JsonString("d1"), JsonString("state")),
     Params("object", Undefined, Undefined, Undefined, JsonString("d1"), Undefined)}

\* What JSON.parse gives: an object with the envelope's members, or a value
\* that is no object.
Envelope(kind, jsonrpc, id, method, params) ==
    [kind |-> kind, jsonrpc |-> jsonrpc, id |-> id, method |-> method, params |-> params]

RPC_HANDLERS ==
    {"createVerificationFlow", "getDiscordOAuthLink", "linkDiscordAccount", "verifyConnection"}

EnvelopeInputs ==
    {Envelope("object", jsonrpc, id, method, params) :
        jsonrpc \in {Undefined, JsonString("2.0"), JsonString("1.0"), JsonNumber(2)},
        id \in {Undefined, Null, JsonNumber(1), JsonString("a"), JsonTrue},
        method \in {Undefined, JsonNumber(1), JsonString("unknown")}
                   \cup {JsonString(m) : m \in RPC_HANDLERS},
        params \in ParamsInputs}
    \cup {Envelope(kind, Undefined, Undefined, Undefined, CHOOSE p \in ParamsInputs : p.kind = "undefined") :
            kind \in {"null", "array", "number"}}

\* A request: whether its body can be read, whether the text is JSON, and
\* the value the text stands for.
Request(readable, json, value) == [readable |-> readable, json |-> json, value |-> value]

NoEnvelope == Envelope("null", Undefined, Undefined, Undefined,
                       Params("undefined", Undefined, Undefined, Undefined, Undefined, Undefined))

Requests ==
    {Request(FALSE, FALSE, NoEnvelope), Request(TRUE, FALSE, NoEnvelope)}
    \cup {Request(TRUE, TRUE, v) : v \in EnvelopeInputs}

\* result.ts: ResultOk and ResultErr.  A member that is not there is the
\* empty set.
ResultOk(value) == [success |-> TRUE, value |-> {value}, error |-> {}]
ResultErr(error) == [success |-> FALSE, value |-> {}, error |-> {error}]

\* A promise that has settled, or a call that has returned or thrown.
Settled(state, value) == [state |-> state, value |-> value]

\* A tryCatch that lets the failure through.
tryCatch_Rethrowing(completion) ==
    IF completion.state = "fulfilled"
    THEN Settled("fulfilled", {ResultOk(CHOOSE v \in completion.value : TRUE)})
    ELSE Settled("rejected", {})

\* result.tryCatch, for a function and for a promise alike: the outcome as
\* a Result, never a failure.
tryCatch(completion) ==
    IF completion.state = "fulfilled"
    THEN Settled("fulfilled", {ResultOk(CHOOSE v \in completion.value : TRUE)})
    ELSE Settled("fulfilled", {ResultErr("error")})

\* c.req.text() and JSON.parse.
ReqText(request) ==
    IF request.readable THEN Settled("fulfilled", {request}) ELSE Settled("rejected", {})

JSONParse(request) ==
    IF request.json THEN Settled("fulfilled", {request.value}) ELSE Settled("rejected", {})

\* RPCRequestSchema.safeParse(...).success
RPCRequestSchema(v) ==
    /\ v.kind = "object"
    /\ v.id.kind \in {"undefined", "null", "number", "string"}
    /\ v.jsonrpc = JsonString("2.0")
    /\ v.method.kind = "string"

\* handler.paramsSchema.safeParse(...).success, for the handler of a method.
ParamsSchema(method, params) ==
    /\ params.kind = "object"
    /\ CASE method \in {"createVerificationFlow", "verifyConnection"} ->
              /\ params.minecraftUUID.kind = "string" /\ params.minecraftUUID.s \in UUIDs
              /\ params.sharedSecret.kind = "string"
         [] method = "getDiscordOAuthLink" -> params.linkingCode.kind = "string"
         [] method = "linkDiscordAccount" ->
              params.code.kind = "string" /\ params.state.kind = "string"

\* What a handler's promise may settle to: a value of its result schema, or
\* a rejection.
HandlerErrors(method) ==
    CASE method = "createVerificationFlow" ->
            {"InvalidSharedSecret", "DatabaseError", "CodeGenerationFailed"}
      [] method = "getDiscordOAuthLink" -> {"InvalidLinkingCode", "DatabaseError"}
      [] method = "linkDiscordAccount" ->
            {"InvalidState", "InvalidLinkingCode", "InvalidCode", "DiscordError",
             "DatabaseError", "AccessDenied"}
      [] method = "verifyConnection" ->
            {"InvalidSharedSecret", "NotLinked", "InvalidAuth", "AccessDenied",
             "DiscordError", "DatabaseError"}

HandlerSettlements(method) ==
    {Settled("rejected", {}), Settled("fulfilled", {ResultOk("value")})}
    \cup {Settled("fulfilled", {ResultErr(e)}) : e \in HandlerErrors(method)}

\* RPCStandardErrors
RPCStandardErrorObjects ==
    [internalError |-> [code |-> -32603, message |-> "Internal error"],
     invalidParams |-> [code |-> -32602, message |-> "Invalid params"],
     invalidRequest |-> [code |-> -32600, message |-> "Invalid Request"],
     methodNotFound |-> [code |-> -32601, message |-> "Method not found"],
     parseError |-> [code |-> -32700, message |-> "Parse error"]]

\* The two shapes of RPCResponseSchema.
ErrorResponse(error, id) == [jsonrpc |-> "2.0", id |-> id, result |-> {}, error |-> {error}]
ResultResponse(result, id) == [jsonrpc |-> "2.0", id |-> id, result |-> {result}, error |-> {}]

RpcIdle == [pc |-> "idle", request |-> Request(FALSE, FALSE, NoEnvelope),
            jsonRPCRequestID |-> Null, method |-> "", handlerResult |-> {},
            response |-> {}]

\* RPCHandlerRegistry.createHandlersMap and getHandlers.
createHandlersMap == RPC_HANDLERS

\* A registry whose map is never filled.
getHandlers_Empty == {{}}

getHandlers == IF registry = {} THEN {createHandlersMap} ELSE registry

\* handleRPC up to its first await, the read of the body.
HandleRPC_Start(request) ==
    /\ rpc.pc \in {"idle", "done"}
    /\ rpc' = [RpcIdle EXCEPT !.pc = "reqText", !.request = request]
    /\ UNCHANGED <<now, dbVars, providerVars, req, starts, consumed, login, registry, fetch, gen>>

\* handleRPC from the body to the call of the handler, its second await, or
\* to the response of a request the handler is not called for.
HandleRPC_ReqText ==
    /\ rpc.pc = "reqText"
    /\ LET reqText == tryCatch(ReqText(rpc.request))
           text == CHOOSE t \in reqText.value : TRUE
           parsed == tryCatch(JSONParse(rpc.request))
           reqJSON == CHOOSE t \in parsed.value : TRUE
           value == CHOOSE v \in reqJSON.value : TRUE
           jsonRPCRequestID == IF value.id.kind = "undefined" THEN Null ELSE value.id
           handlers == CHOOSE h \in getHandlers : TRUE
           done(response) == [rpc EXCEPT !.pc = "done", !.response = {response}]
       IN IF reqText.state = "rejected"
          THEN rpc' = [rpc EXCEPT !.pc = "rejected"] /\ UNCHANGED registry
          ELSE IF ~ text.success
          THEN /\ rpc' = done(ErrorResponse(RPCStandardErrorObjects.parseError,
                                            rpc.jsonRPCRequestID))
               /\ UNCHANGED registry
          ELSE IF parsed.state = "rejected"
          THEN rpc' = [rpc EXCEPT !.pc = "rejected"] /\ UNCHANGED registry
          ELSE IF ~ reqJSON.success
          THEN /\ rpc' = done(ErrorResponse(RPCStandardErrorObjects.parseError,
                                            rpc.jsonRPCRequestID))
               /\ UNCHANGED registry
          ELSE IF ~ RPCRequestSchema(value)
          THEN /\ rpc' = done(ErrorResponse(RPCStandardErrorObjects.invalidRequest,
                                            rpc.jsonRPCRequestID))
               /\ UNCHANGED registry
          ELSE /\ registry' = getHandlers
               /\ rpc' =
                    IF value.method.s \notin handlers
                    THEN [done(ErrorResponse(RPCStandardErrorObjects.methodNotFound,
                                             jsonRPCRequestID))
                            EXCEPT !.jsonRPCRequestID = jsonRPCRequestID]
                    ELSE IF ~ ParamsSchema(value.method.s, value.params)
                    THEN [done(ErrorResponse(RPCStandardErrorObjects.invalidParams,
                                             jsonRPCRequestID))
                            EXCEPT !.jsonRPCRequestID = jsonRPCRequestID,
                                   !.method = value.method.s]
                    ELSE [rpc EXCEPT !.pc = "handlerResult",
                                     !.jsonRPCRequestID = jsonRPCRequestID,
                                     !.method = value.method.s]
    /\ UNCHANGED <<now, dbVars, providerVars, req, starts, consumed, login, fetch, gen>>

\* handleRPC after the handler's promise has settled.
HandleRPC_HandlerResult(settled) ==
    /\ rpc.pc = "handlerResult"
    /\ settled \in HandlerSettlements(rpc.method)
    /\ LET awaited == tryCatch(settled)
           handlerResult == CHOOSE x \in awaited.value : TRUE
       IN rpc' =
            IF awaited.state = "rejected"
            THEN [rpc EXCEPT !.pc = "rejected", !.handlerResult = {settled}]
            ELSE IF ~ handlerResult.success
            THEN [rpc EXCEPT !.pc = "done", !.handlerResult = {settled},
                    !.response = {ErrorResponse(RPCStandardErrorObjects.internalError,
                                                rpc.jsonRPCRequestID)}]
            ELSE [rpc EXCEPT !.pc = "done", !.handlerResult = {settled},
                    !.response = {ResultResponse(CHOOSE v \in handlerResult.value : TRUE,
                                                 rpc.jsonRPCRequestID)}]
    /\ UNCHANGED <<now, dbVars, providerVars, req, starts, consumed, login, registry, fetch, gen>>

\* ------------------------------------------------------------ discordFetch
\* Times are in milliseconds.  A timer runs its callback at the time it is
\* due, and a response is taken at the time it arrives.
EXTRA_BUFFER_MS == 100
JITTER_RANGE == 30      \* in hundredths
JITTER_MIN == 85        \* in hundredths

RetriesInputs == {0, 1, 3}
TimeoutInputs == {0, 1000, 5000}
RandomInputs == {0, 99}             \* Math.random(), in hundredths
ElapsedInputs == {0, 1000}          \* the time an attempt takes to answer

\* The Retry-After header: absent, a number of seconds, a date (as its
\* time in milliseconds), or neither.
RetryAfter(kind, n) == [kind |-> kind, n |-> n]

\* A response body as far as the schemas of the callers look at it: whether
\* it is JSON at all, and which members it has: those of a token, an
\* `error` text, the `code` and `message` of an API error, those of a
\* user; or whether it is an array of guilds.
Body(json, token, error, code, user, guilds) ==
    [json |-> json, token |-> token, error |-> error, code |-> code,
     user |-> user, guilds |-> guilds]

NoBody == Body(FALSE, FALSE, "", FALSE, FALSE, {})

Bodies ==
    {NoBody,
     Body(TRUE, FALSE, "", FALSE, FALSE, {}),
     Body(TRUE, TRUE, "", FALSE, FALSE, {}),
     Body(TRUE, TRUE, "invalid_grant", FALSE, FALSE, {}),
     Body(TRUE, FALSE, "invalid_grant", FALSE, FALSE, {}),
     Body(TRUE, FALSE, "invalid_request", FALSE, FALSE, {}),
     Body(TRUE, FALSE, "", TRUE, FALSE, {}),
     Body(TRUE, FALSE, "", FALSE, TRUE, {}),
     Body(TRUE, FALSE, "", TRUE, TRUE, {}),
     Body(TRUE, FALSE, "", FALSE, FALSE, {{"g1", "other"}})}

\* What the endpoint answers to one attempt: no response, or a status with
\* a body.
Response(kind, status, retryAfter, body) ==
    [kind |-> kind, status |-> status, retryAfter |-> retryAfter, body |-> body]

Responses ==
    {Response("network-error", 0, RetryAfter("absent", 0), NoBody)}
    \cup {Response("status", 429, h, NoBody) :
            h \in {RetryAfter("absent", 0), RetryAfter("garbage", 0)}
                  \cup {RetryAfter("seconds", n) : n \in {0, 1, 6}}
                  \cup {RetryAfter("date", d) : d \in {4900, 5000}}}
    \cup {Response("status", 500, RetryAfter("absent", 0), NoBody)}
    \cup {Response("status", status, RetryAfter("absent", 0), body) :
            status \in {200, 201, 204, 400, 401, 403}, body \in Bodies}

Max(a, b) == IF a >= b THEN a ELSE b
Min(a, b) == IF a <= b THEN a ELSE b

\* discordFetchInner: success, a final error, or a retry with or without a
\* delay; `t` is Date.now() when the response is there.
Inner(kind, afterMs, error, statusCode, data) ==
    [kind |-> kind, afterMs |-> afterMs, error |-> error, statusCode |-> statusCode,
     data |-> data]

\* A discordFetchInner that retries every status from 400 on.
discordFetchInner_Retrying4xx(response, t) ==
    IF response.kind = "network-error" THEN Inner("retry", {}, "", 0, NoBody)
    ELSE IF response.status = 429
    THEN CASE response.retryAfter.kind = "seconds" ->
                 Inner("retry", {Max(0, response.retryAfter.n * 1000)}, "", 0, NoBody)
           [] response.retryAfter.kind = "date" ->
                 Inner("retry", {Max(0, response.retryAfter.n - t)}, "", 0, NoBody)
           [] OTHER -> Inner("retry", {}, "", 0, NoBody)
    ELSE IF response.status >= 400 /\ response.status < 600
    THEN Inner("retry", {}, "", 0, NoBody)
    ELSE IF ~ response.body.json THEN Inner("final", {}, "invalid-json", 0, NoBody)
    ELSE Inner("success", {}, "", response.status, response.body)

discordFetchInner(response, t) ==
    IF response.kind = "network-error" THEN Inner("retry", {}, "", 0, NoBody)
    ELSE IF response.status = 429
    THEN CASE response.retryAfter.kind = "seconds" ->
                 Inner("retry", {Max(0, response.retryAfter.n * 1000)}, "", 0, NoBody)
           [] response.retryAfter.kind = "date" ->
                 Inner("retry", {Max(0, response.retryAfter.n - t)}, "", 0, NoBody)
           [] OTHER -> Inner("retry", {}, "", 0, NoBody)
    ELSE IF response.status >= 500 /\ response.status < 600
    THEN Inner("retry", {}, "", 0, NoBody)
    ELSE IF ~ response.body.json THEN Inner("final", {}, "invalid-json", 0, NoBody)
    ELSE Inner("success", {}, "", response.status, response.body)

\* The five callers of discordFetch: each turns what discordFetch returned,
\* {success, value: {data, statusCode}} or {success, error}, into its own
\* result, here "success" or the error.
createDiscordOAuth2TokenWithCode(response) ==
    IF ~ response.success THEN response.error
    ELSE IF response.statusCode = 401 THEN "invalid-auth"
    ELSE IF ~ (response.data.token \/ response.data.error # "") THEN "unexpected-response"
    ELSE IF response.data.token THEN "success"
    ELSE IF response.data.error = "invalid_grant" THEN "invalid-code"
    ELSE "unknown-error"

\* A refresh that classifies invalid_grant as the code exchange does.
createDiscordOAuth2TokenWithRefreshToken_InvalidCode(response) ==
    IF ~ response.success THEN response.error
    ELSE IF response.statusCode = 401 THEN "invalid-auth"
    ELSE IF ~ (response.data.token \/ response.data.error # "") THEN "unexpected-response"
    ELSE IF response.data.token THEN "success"
    ELSE IF response.data.error = "invalid_grant" THEN "invalid-code"
    ELSE "unknown-error"

createDiscordOAuth2TokenWithRefreshToken(response) ==
    IF ~ response.success THEN response.error
    ELSE IF response.statusCode = 401 THEN "invalid-auth"
    ELSE IF ~ (response.data.token \/ response.data.error # "") THEN "unexpected-response"
    ELSE IF response.data.token THEN "success"
    ELSE IF response.data.error = "invalid_grant" THEN "invalid-auth"
    ELSE "unknown-error"

revokeDiscordOAuth2Token(response) ==
    IF ~ response.success THEN response.error
    ELSE IF response.statusCode = 401 THEN "invalid-auth"
    ELSE IF response.statusCode # 200 /\ response.statusCode # 204
    THEN "unexpected-response"
    ELSE "success"

fetchDiscordUserData(response) ==
    IF ~ response.success THEN response.error
    ELSE IF response.statusCode = 401 THEN "invalid-auth"
    ELSE IF response.statusCode = 403 THEN "insufficient-permissions"
    ELSE IF ~ (response.data.user \/ response.data.code) THEN "unexpected-response"
    ELSE IF response.data.user THEN "success"
    ELSE "unexpected-response"

\* A guilds fetch without the test of status 403.
fetchDiscordUserGuildsData_No403(response) ==
    IF ~ response.success THEN response.error
    ELSE IF response.statusCode = 401 THEN "invalid-auth"
    ELSE IF ~ (response.data.guilds # {} \/ response.data.code) THEN "unexpected-response"
    ELSE IF response.data.guilds # {} THEN "success"
    ELSE "unexpected-response"

fetchDiscordUserGuildsData(response) ==
    IF ~ response.success THEN response.error
    ELSE IF response.statusCode = 401 THEN "invalid-auth"
    ELSE IF response.statusCode = 403 THEN "insufficient-permissions"
    ELSE IF ~ (response.data.guilds # {} \/ response.data.code) THEN "unexpected-response"
    ELSE IF response.data.guilds # {} THEN "success"
    ELSE "unexpected-response"

Callers == {"createDiscordOAuth2TokenWithCode", "createDiscordOAuth2TokenWithRefreshToken",
            "revokeDiscordOAuth2Token", "fetchDiscordUserData",
            "fetchDiscordUserGuildsData"}

Call(caller, response) ==
    CASE caller = "createDiscordOAuth2TokenWithCode" ->
            createDiscordOAuth2TokenWithCode(response)
      [] caller = "createDiscordOAuth2TokenWithRefreshToken" ->
            createDiscordOAuth2TokenWithRefreshToken(response)
      [] caller = "revokeDiscordOAuth2Token" -> revokeDiscordOAuth2Token(response)
      [] caller = "fetchDiscordUserData" -> fetchDiscordUserData(response)
      [] caller = "fetchDiscordUserGuildsData" -> fetchDiscordUserGuildsData(response)

FetchIdle == [pc |-> "idle", caller |-> "", retries |-> 0, timeoutMs |-> 0,
              startTime |-> 0, maxEndTime |-> 0, attempt |-> 0, wasAborted |-> FALSE,
              timer |-> {}, sleepUntil |-> {}, response |-> {}, inner |-> {},
              result |-> "", statusCode |-> 0, outcome |-> ""]

\* discordFetch returns, and its caller with it.
FetchReturn(f, result, statusCode) ==
    [f EXCEPT !.pc = "done", !.timer = {}, !.sleepUntil = {},
              !.result = result, !.statusCode = statusCode,
              !.outcome = Call(f.caller,
                               [success |-> result = "success", error |-> result,
                                statusCode |-> statusCode,
                                data |-> IF result = "success"
                                         THEN (CHOOSE i \in f.inner : TRUE).data
                                         ELSE NoBody])]

\* An attempt whose timer gets the whole budget again.
DiscordFetch_Attempt_FreshBudget(f, t) ==
    IF f.attempt > f.retries + 1 THEN FetchReturn(f, "retries-exhausted", 0)
    ELSE IF f.maxEndTime - t <= 0 THEN FetchReturn(f, "timeout", 0)
    ELSE [f EXCEPT !.pc = "inner", !.wasAborted = FALSE, !.sleepUntil = {},
                   !.timer = {t + f.timeoutMs}]

\* The head of the loop at time t: the loop ends, or the call times out, or
\* the attempt starts with its timer set to the remaining time.
DiscordFetch_Attempt(f, t) ==
    LET remaining == f.maxEndTime - t
    IN IF f.attempt > f.retries + 1 THEN FetchReturn(f, "retries-exhausted", 0)
       ELSE IF remaining <= 0 THEN FetchReturn(f, "timeout", 0)
       ELSE [f EXCEPT !.pc = "inner", !.wasAborted = FALSE, !.sleepUntil = {},
                      !.timer = {t + remaining}]

\* 2 ** n
Pow2(n) == IF n = 0 THEN 1 ELSE IF n = 1 THEN 2 ELSE IF n = 2 THEN 4 ELSE 8

\* A loop body that adds the safety buffer to the delay the response asked for.
DiscordFetch_AfterAttempt_Padded(f, result, t, random) ==
    IF result.kind = "success" THEN FetchReturn(f, "success", result.statusCode)
    ELSE IF result.kind = "final" THEN FetchReturn(f, result.error, 0)
    ELSE IF f.attempt > f.retries THEN FetchReturn(f, "retries-exhausted", 0)
    ELSE IF result.afterMs = {}
    THEN LET remainingForBackoff == f.maxEndTime - t - EXTRA_BUFFER_MS
             jitter == (random * JITTER_RANGE) \div 100 + JITTER_MIN
             backoffMs == Min((500 * Pow2(f.attempt - 1) * jitter) \div 100,
                              remainingForBackoff)
         IN IF backoffMs <= 0 THEN FetchReturn(f, "retries-exhausted", 0)
            ELSE [f EXCEPT !.pc = "sleep", !.timer = {}, !.sleepUntil = {t + backoffMs}]
    ELSE LET afterMs == (CHOOSE a \in result.afterMs : TRUE) + EXTRA_BUFFER_MS
         IN IF t + afterMs >= f.maxEndTime THEN FetchReturn(f, "timeout", 0)
            ELSE [f EXCEPT !.pc = "sleep", !.timer = {}, !.sleepUntil = {t + afterMs}]

\* A loop body whose backoff is not capped by the time that remains.
DiscordFetch_AfterAttempt_Uncapped(f, result, t, random) ==
    IF result.kind = "success" THEN FetchReturn(f, "success", result.statusCode)
    ELSE IF result.kind = "final" THEN FetchReturn(f, result.error, 0)
    ELSE IF f.attempt > f.retries THEN FetchReturn(f, "retries-exhausted", 0)
    ELSE IF result.afterMs = {}
    THEN LET jitter == (random * JITTER_RANGE) \div 100 + JITTER_MIN
             backoffMs == (500 * Pow2(f.attempt - 1) * jitter) \div 100
         IN [f EXCEPT !.pc = "sleep", !.timer = {}, !.sleepUntil = {t + backoffMs}]
    ELSE LET afterMs == CHOOSE a \in result.afterMs : TRUE
         IN IF t + afterMs >= f.maxEndTime THEN FetchReturn(f, "timeout", 0)
            ELSE [f EXCEPT !.pc = "sleep", !.timer = {}, !.sleepUntil = {t + afterMs}]

\* A loop body without the test that stops after the last retry.
DiscordFetch_AfterAttempt_NoBreak(f, result, t, random) ==
    IF result.kind = "success" THEN FetchReturn(f, "success", result.statusCode)
    ELSE IF result.kind = "final" THEN FetchReturn(f, result.error, 0)
    ELSE IF result.afterMs = {}
    THEN LET remainingForBackoff == f.maxEndTime - t - EXTRA_BUFFER_MS
             jitter == (random * JITTER_RANGE) \div 100 + JITTER_MIN
             backoffMs == Min((500 * Pow2(f.attempt - 1) * jitter) \div 100,
                              remainingForBackoff)
         IN IF backoffMs <= 0 THEN FetchReturn(f, "retries-exhausted", 0)
            ELSE [f EXCEPT !.pc = "sleep", !.timer = {}, !.sleepUntil = {t + backoffMs}]
    ELSE LET afterMs == CHOOSE a \in result.afterMs : TRUE
         IN IF t + afterMs >= f.maxEndTime THEN FetchReturn(f, "timeout", 0)
            ELSE [f EXCEPT !.pc = "sleep", !.timer = {}, !.sleepUntil = {t + afterMs}]

\* The rest of the loop body after an attempt that was not aborted.
DiscordFetch_AfterAttempt(f, result, t, random) ==
    IF result.kind = "success" THEN FetchReturn(f, "success", result.statusCode)
    ELSE IF result.kind = "final" THEN FetchReturn(f, result.error, 0)
    ELSE IF f.attempt > f.retries THEN FetchReturn(f, "retries-exhausted", 0)
    ELSE IF result.afterMs = {}
    THEN LET remainingForBackoff == f.maxEndTime - t - EXTRA_BUFFER_MS
             jitter == (random * JITTER_RANGE) \div 100 + JITTER_MIN
             backoffMs == Min((500 * Pow2(f.attempt - 1) * jitter) \div 100,
                              remainingForBackoff)
         IN IF backoffMs <= 0 THEN FetchReturn(f, "retries-exhausted", 0)
            ELSE [f EXCEPT !.pc = "sleep", !.timer = {}, !.sleepUntil = {t + backoffMs}]
    ELSE LET afterMs == CHOOSE a \in result.afterMs : TRUE
         IN IF t + afterMs >= f.maxEndTime THEN FetchReturn(f, "timeout", 0)
            ELSE [f EXCEPT !.pc = "sleep", !.timer = {}, !.sleepUntil = {t + afterMs}]

\* discordFetch is called: the deadline is fixed and the loop is entered.
DiscordFetch_Start(caller, retries, timeoutMs) ==
    /\ fetch.pc = "idle"
    /\ fetch' = DiscordFetch_Attempt(
                   [FetchIdle EXCEPT !.caller = caller,
                                     !.retries = retries, !.timeoutMs = timeoutMs,
                                     !.startTime = now, !.maxEndTime = now + timeoutMs,
                                     !.attempt = 1], now)
    /\ UNCHANGED <<now, dbVars, providerVars, req, starts, consumed, login, rpc, registry, gen>>

\* The attempt answers before its timer is due, or just then.
DiscordFetch_InnerResult(response, elapsed, random) ==
    /\ fetch.pc = "inner"
    /\ \A due \in fetch.timer : now + elapsed <= due
    /\ now' = now + elapsed
    /\ LET result == discordFetchInner(response, now')
       IN fetch' = DiscordFetch_AfterAttempt([fetch EXCEPT !.response = {response},
                                                           !.inner = {result}],
                                             result, now', random)
    /\ UNCHANGED <<dbVars, providerVars, req, starts, consumed, login, rpc, registry, gen>>

\* The timer fires while the attempt is in flight: the attempt is aborted,
\* discordFetchInner returns, and the call ends with timeout.
DiscordFetch_Timer ==
    /\ fetch.pc = "inner"
    /\ \E due \in fetch.timer :
          /\ now' = due
          /\ fetch' = FetchReturn([fetch EXCEPT !.wasAborted = TRUE, !.response = {},
                                                !.inner = {Inner("retry", {}, "", 0, NoBody)}],
                                  "timeout", 0)
    /\ UNCHANGED <<dbVars, providerVars, req, starts, consumed, login, rpc, registry, gen>>

\* The sleep is over: the next turn of the loop.
DiscordFetch_Wake ==
    /\ fetch.pc = "sleep"
    /\ \E t \in fetch.sleepUntil :
          /\ now' = t
          /\ fetch' = DiscordFetch_Attempt([fetch EXCEPT !.attempt = @ + 1], t)
    /\ UNCHANGED <<dbVars, providerVars, req, starts, consumed, login, rpc, registry, gen>>

\* ------------------------------------------------------- the datastores
\* The tables after migration: no rows.
EmptyDatastore ==
    [verificationFlows |-> {}, discordUsers |-> {}, minecraftUsers |-> {},
     connections |-> {},
     nextId |-> [flow |-> 1, discordUser |-> 1, minecraftUser |-> 1, connection |-> 1],
     issuedToken |-> [a \in Accounts |-> 0],
     consumed |-> {}]

\* The datastore after one createVerificationFlow(uuid), served alone at
\* time 0 with no flow of the uuid or the code in the table.
Created(ds, uuid, linkingCode) ==
    [ds EXCEPT !.verificationFlows =
                   InsertFlow(@, ds.nextId.flow, linkingCode, uuid, EXPIRY_DURATION_MS),
               !.nextId.flow = @ + 1,
               !.consumed = @ \ {linkingCode}]

\* The datastore after one linkDiscordAccount, served alone at time 0 with
\* the flow of the code in the table, by an account that is in the guild
\* and has no connection.
Linked(ds, linkingCode, account) ==
    LET flow == CHOOSE f \in ds.verificationFlows : f.linkingCode = linkingCode
        refreshToken == <<account, ds.issuedToken[account] + 1>>
        dRows == UpsertDiscordUser(ds.discordUsers, ds.nextId.discordUser,
                                   account, refreshToken)
        mRows == UpsertMinecraftUser(ds.minecraftUsers, ds.nextId.minecraftUser,
                                     flow.minecraftUUID)
        d == CHOOSE u \in dRows : u.discordID = account
        m == CHOOSE u \in mRows : u.minecraftUUID = flow.minecraftUUID
        cRows == UpsertConnection(ds.connections, ds.nextId.connection, d.id, m.id)
    IN [verificationFlows |-> ds.verificationFlows \ {flow},
        discordUsers |-> dRows, minecraftUsers |-> mRows, connections |-> cRows,
        nextId |-> [flow |-> ds.nextId.flow,
                    discordUser |-> ds.nextId.discordUser
                        + Cardinality(dRows) - Cardinality(ds.discordUsers),
                    minecraftUser |-> ds.nextId.minecraftUser
                        + Cardinality(mRows) - Cardinality(ds.minecraftUsers),
                    connection |-> ds.nextId.connection
                        + Cardinality(cRows) - Cardinality(ds.connections)],
        issuedToken |-> [ds.issuedToken EXCEPT ![account] = @ + 1],
        consumed |-> ds.consumed \cup {linkingCode}]

\* The datastores a run starts from: the empty one, and three that earlier
\* requests, served one after the other at time 0, have left behind.
InitialDatastores ==
    LET linked == Linked(Created(EmptyDatastore, "u1", "c1"), "c1", "d1")
    IN {EmptyDatastore,
        Created(EmptyDatastore, "u1", "c1"),
        Created(linked, "u1", "c2"),
        Created(linked, "u2", "c2")}

InitFrom(ds) ==
    /\ now = 0
    /\ verificationFlows = ds.verificationFlows
    /\ discordUsers = ds.discordUsers
    /\ minecraftUsers = ds.minecraftUsers
    /\ connections = ds.connections
    /\ nextId = ds.nextId
    /\ issuedToken = ds.issuedToken
    /\ req = [r \in Req |-> Idle]
    /\ starts = 0
    /\ consumed = ds.consumed
    /\ login = <<>>
    /\ rpc = RpcIdle
    /\ registry = {}
    /\ fetch = FetchIdle
    /\ gen = GenIdle

Init == \E ds \in InitialDatastores : InitFrom(ds)

Next ==
    \/ Tick
    \/ CreateVerificationFlow(MaxStarts)
    \/ GetDiscordOAuthLink(MaxStarts)
    \/ LinkDiscordAccount(MaxStarts)
    \/ VerifyConnection(MaxStarts)

Spec == Init /\ [][Next]_vars

\* The verification flows alone: createVerificationFlow requests on the
\* empty datastore.
InitFlows == InitFrom(EmptyDatastore)

NextFlows ==
    \/ Tick
    \/ CreateVerificationFlow(MaxFlowStarts)

SpecFlows == InitFlows /\ [][NextFlows]_vars

\* ------------------------------------------------ the plugin's login gate
Players == {"p1", "p2"}

\* What comes back for one HTTP POST of the plugin: the transport fails
\* (connect, read timeout, a body that is no JSON-RPC response), or a
\* response envelope arrives with an error, with no result, or with a result.
RPCStandardErrors == {-32700, -32600, -32601, -32602, -32603}

Payload(success, error, value) == [success |-> success, error |-> error, value |-> value]

VerifyConnectionPayloads ==
    {Payload("true", "missing", {})}
    \cup {Payload("false", e, {}) :
            e \in {"InvalidSharedSecret", "NotLinked", "InvalidAuth", "AccessDenied",
                   "DiscordError", "DatabaseError"}}
    \cup {Payload("missing", "missing", {})}

CreateVerificationFlowPayloads ==
    {Payload("true", "missing", {c}) : c \in Codes}
    \cup {Payload("true", "missing", {})}
    \cup {Payload("false", e, {}) :
            e \in {"InvalidSharedSecret", "DatabaseError", "CodeGenerationFailed"}}

Wire(transport, error, result) == [transport |-> transport, error |-> error, result |-> result]

WireResponses(payloads) ==
    {Wire("failed", {}, {})}
    \cup {Wire("ok", {code}, {}) : code \in RPCStandardErrors}
    \cup {Wire("ok", {}, {})}
    \cup {Wire("ok", {}, {p}) : p \in payloads}
    \cup {Wire("ok", {-32603}, {p}) : p \in payloads}

\* String.toBoolean() of the "success" member; a missing member is false.
ToBoolean(text) == text = "true"

\* VerifyConnectionResultSerializer.deserialize
DeserializeVerifyConnectionResult(payload) ==
    IF ToBoolean(payload.success)
    THEN [kind |-> "Success", error |-> "", value |-> {}]
    ELSE [kind |-> "Failure",
          error |-> IF payload.error = "missing" THEN "Unknown error" ELSE payload.error,
          value |-> {}]

\* CreateVerificationFlowResultSerializer.deserialize; "Throws" when a
\* success has no value.
DeserializeCreateVerificationFlowResult(payload) ==
    IF ToBoolean(payload.success)
    THEN IF payload.value = {}
         THEN [kind |-> "Throws", error |-> "", value |-> {}]
         ELSE [kind |-> "Success", error |-> "", value |-> payload.value]
    ELSE [kind |-> "Failure",
          error |-> IF payload.error = "missing" THEN "Unknown error" ELSE payload.error,
          value |-> {}]

\* A call that does not look at the envelope's error member.
JsonRpcCall_IgnoringError(wire, decoded) ==
    IF wire.transport = "failed" THEN "failure"
    ELSE IF \E d \in decoded : d.kind = "Throws" THEN "failure"
    ELSE IF wire.result = {} THEN "failure"
    ELSE "success"

\* JsonRpcClient.call: runCatching around the POST, the decoding and the
\* envelope test.  `decoded` is the deserialized result, when one arrived.
JsonRpcCall(wire, decoded) ==
    IF wire.transport = "failed" THEN "failure"
    ELSE IF \E d \in decoded : d.kind = "Throws" THEN "failure"
    ELSE IF wire.error # {} THEN "failure"
    ELSE IF wire.result = {} THEN "failure"
    ELSE "success"

NoLogin == [pc |-> "idle", loginResult |-> "ALLOWED", message |-> "",
            verifyConnection |-> Wire("none", {}, {}),
            createVerificationFlow |-> Wire("none", {}, {})]

\* AsyncPlayerPreLoginEvent fires; the handler posts verifyConnection.
OnAsyncPlayerPreLogin(p) ==
    /\ login[p].pc = "idle"
    /\ login' = [login EXCEPT ![p] = [@ EXCEPT !.pc = "verifyConnection"]]
    /\ UNCHANGED <<now, dbVars, providerVars, req, starts, consumed, rpc, registry, fetch, gen>>

\* rpcClient.verifyConnection(...).fold: a Success returns and leaves the
\* event allowed, any other result goes on to createVerificationFlow, a
\* failed call disallows.
OnAsyncPlayerPreLogin_VerifyConnection(p, wire) ==
    /\ login[p].pc = "verifyConnection"
    /\ LET decoded == {DeserializeVerifyConnectionResult(x) : x \in wire.result}
           call == JsonRpcCall(wire, decoded)
       IN login' = [login EXCEPT ![p] =
            IF call = "failure"
            THEN [@ EXCEPT !.pc = "done", !.verifyConnection = wire,
                           !.loginResult = "KICK_OTHER",
                           !.message = "Verification failed. Try again."]
            ELSE IF \E d \in decoded : d.kind = "Success"
                 THEN [@ EXCEPT !.pc = "done", !.verifyConnection = wire]
            ELSE [@ EXCEPT !.pc = "createVerificationFlow", !.verifyConnection = wire]]
    /\ UNCHANGED <<now, dbVars, providerVars, req, starts, consumed, rpc, registry, fetch, gen>>

\* rpcClient.createVerificationFlow(...).fold: every branch disallows.
OnAsyncPlayerPreLogin_CreateVerificationFlow(p, wire) ==
    /\ login[p].pc = "createVerificationFlow"
    /\ LET decoded == {DeserializeCreateVerificationFlowResult(x) : x \in wire.result}
           call == JsonRpcCall(wire, decoded)
       IN login' = [login EXCEPT ![p] =
            [@ EXCEPT !.pc = "done", !.createVerificationFlow = wire,
                      !.loginResult = "KICK_OTHER",
                      !.message =
                         IF call = "failure"
                         THEN "Could not create verification flow."
                         ELSE IF \E d \in decoded : d.kind = "Success"
                              THEN "Discord Verification Required"
                              ELSE "Failed to get verification code."]]
    /\ UNCHANGED <<now, dbVars, providerVars, req, starts, consumed, rpc, registry, fetch, gen>>

InitPlugin ==
    /\ now = 0
    /\ verificationFlows = {}
    /\ discordUsers = {}
    /\ minecraftUsers = {}
    /\ connections = {}
    /\ nextId = EmptyDatastore.nextId
    /\ issuedToken = EmptyDatastore.issuedToken
    /\ req = [r \in Req |-> Idle]
    /\ starts = 0
    /\ consumed = {}
    /\ login = [p \in Players |-> NoLogin]
    /\ rpc = RpcIdle
    /\ registry = {}
    /\ fetch = FetchIdle
    /\ gen = GenIdle

NextPlugin ==
    \E p \in Players :
        \/ OnAsyncPlayerPreLogin(p)
        \/ \E wire \in WireResponses(VerifyConnectionPayloads) :
              OnAsyncPlayerPreLogin_VerifyConnection(p, wire)
        \/ \E wire \in WireResponses(CreateVerificationFlowPayloads) :
              OnAsyncPlayerPreLogin_CreateVerificationFlow(p, wire)

SpecPlugin == InitPlugin /\ [][NextPlugin]_vars

\* ------------------------------------------------ the dispatcher alone
\* handleRPC calls, one after the other, with every request of Requests.
InitRPC == InitFrom(EmptyDatastore)

NextRPC ==
    \/ \E request \in Requests : HandleRPC_Start(request)
    \/ HandleRPC_ReqText
    \/ \E settled \in UNION {HandlerSettlements(m) : m \in RPC_HANDLERS} :
          HandleRPC_HandlerResult(settled)

SpecRPC == InitRPC /\ [][NextRPC]_vars

\* ---------------------------------------------------- the fetch alone
\* One discordFetch call, with every option, response and duration.
InitFetch == InitFrom(EmptyDatastore)

NextFetch ==
    \/ \E caller \in Callers, retries \in RetriesInputs, timeoutMs \in TimeoutInputs :
          DiscordFetch_Start(caller, retries, timeoutMs)
    \/ \E response \in Responses, elapsed \in ElapsedInputs, random \in RandomInputs :
          DiscordFetch_InnerResult(response, elapsed, random)
    \/ DiscordFetch_Timer
    \/ DiscordFetch_Wake

SpecFetch == InitFetch /\ [][NextFetch]_vars

\* The same with the call made, every response arriving or the timer
\* firing, and every sleep ending.
FairSpecFetch == SpecFetch /\ WF_vars(NextFetch)

\* generateLinkingCode alone: one call after the other.
InitGen == InitFrom(EmptyDatastore)

NextGen ==
    \/ \E array \in RandomValues : GenerateLinkingCode_Start(array)
    \/ \E refill \in RandomValues : GenerateLinkingCode_Loop(refill)

SpecGen == InitGen /\ [][NextGen]_vars

\* C1: a finished pre-login is still allowed only if the verifyConnection
\* call came back over the transport, with no JSON-RPC error, carrying a
\* result whose success member is true; whatever createVerificationFlow
\* answered, every other pre-login is disallowed.
C1_AllowedOnlyOnVerifiedSuccess ==
    \A p \in Players :
        login[p].pc = "done" =>
            (login[p].loginResult = "ALLOWED"
                <=> /\ login[p].verifyConnection.transport = "ok"
                    /\ login[p].verifyConnection.error = {}
                    /\ \E x \in login[p].verifyConnection.result : x.success = "true")

\* One player let in after a verified success, another kicked although
\* createVerificationFlow answered with a code.
C1_Witness ==
    /\ login["p1"].pc = "done" /\ login["p1"].loginResult = "ALLOWED"
    /\ login["p2"].pc = "done" /\ login["p2"].loginResult = "KICK_OTHER"
    /\ login["p2"].verifyConnection.result = {Payload("false", "NotLinked", {})}
    /\ login["p2"].createVerificationFlow.result = {Payload("true", "missing", {"c1"})}

\* ------------------------------------------------- the server's properties
\* The request in slot r returns on this step.
Returns(r, op) ==
    /\ req[r].op = op /\ req[r].pc # "done"
    /\ req'[r].op = op /\ req'[r].pc = "done"

\* The ids of the rows of an account and of a UUID.
DiscordUserIDs(account) == {d.id : d \in {x \in discordUsers : x.discordID = account}}
MinecraftUserIDs(uuid) == {m.id : m \in {x \in minecraftUsers : x.minecraftUUID = uuid}}

\* C2: a verifyConnection request returns success only when, in that
\* request, the secret matched, the connection of the UUID and its Discord
\* user with a stored refresh token were found, the refresh gave a new
\* token, and the guild list fetched with it holds the configured guild.
C2_VerifySuccessOnlyAfterEveryCheck ==
    [][\A r \in Req :
        (Returns(r, "verifyConnection") /\ req'[r].result = "Ok") =>
            /\ req[r].secretOk
            /\ req[r].mrec = MinecraftUserIDs(req[r].uuid) /\ req[r].mrec # {}
            /\ req[r].conn # {}
            /\ \A c \in req[r].conn : c.minecraftUserID \in req[r].mrec
            /\ req[r].duser # {}
            /\ \A d \in req[r].duser :
                  /\ d.discordRefreshToken # <<>>
                  /\ \A c \in req[r].conn : c.discordUserID = d.id
                  /\ \A t \in req[r].tok :
                        /\ t.accessToken = d.discordRefreshToken[1]
                        /\ t.refreshToken[2] > d.discordRefreshToken[2]
            /\ req[r].tok # {}
            /\ req[r].pc = "guildsResult"
            /\ DISCORD_GUILD_ID \in req'[r].guilds]_vars

\* A verifyConnection request has returned success.
C2_Witness ==
    \E r \in Req :
        /\ req[r].op = "verifyConnection" /\ req[r].pc = "done"
        /\ req[r].result = "Ok" /\ DISCORD_GUILD_ID \in req[r].guilds

\* C3: a connection row appears or changes only on the last step of a
\* linkDiscordAccount request that matched a flow of its linking code not
\* expired at the request's time, got a token and the profile, and saw the
\* configured guild in the membership list; the row is that of the flow's
\* UUID, bound to the profile's account.
C3_ConnectionOnlyByCompletedLink ==
    [][(connections' \ connections # {}) =>
        \E r \in Req :
            /\ Returns(r, "linkDiscordAccount") /\ req'[r].result = "Ok"
            /\ req[r].pc = "connection"
            /\ req[r].flow # {}
            /\ \A f \in req[r].flow :
                  /\ f.linkingCode = req[r].code
                  /\ f.expiresAt > req[r].now
                  /\ \A c \in connections' \ connections :
                        /\ c.minecraftUserID \in MinecraftUserIDs(f.minecraftUUID)
                        /\ c.discordUserID \in DiscordUserIDs(req[r].who)
            /\ req[r].tok # {}
            /\ req[r].who \in Accounts
            /\ DISCORD_GUILD_ID \in req[r].guilds]_vars

\* A linkDiscordAccount request has returned success and the connection of
\* its UUID is bound to its account.
C3_Witness ==
    \E r \in Req :
        /\ req[r].op = "linkDiscordAccount" /\ req[r].pc = "done" /\ req[r].result = "Ok"
        /\ \E c \in connections, v \in req[r].value :
              /\ c.minecraftUserID \in MinecraftUserIDs(req[r].uuid)
              /\ c.discordUserID \in DiscordUserIDs(v.discordUsername)

\* C4: no account is in two connections and no UUID is in two connections.
C4_OneToOne ==
    /\ \A a \in Accounts :
          Cardinality({c \in connections : c.discordUserID \in DiscordUserIDs(a)}) <= 1
    /\ \A u \in UUIDs :
          Cardinality({c \in connections : c.minecraftUserID \in MinecraftUserIDs(u)}) <= 1
    /\ \A a \in Accounts : Cardinality(DiscordUserIDs(a)) <= 1
    /\ \A u \in UUIDs : Cardinality(MinecraftUserIDs(u)) <= 1

\* A link whose account is already in the connection of another UUID has
\* been turned down by the datastore: one connection, two UUID rows, and the
\* request returned DatabaseError after its first batch.
C4_Witness ==
    /\ Cardinality(connections) = 1
    /\ Cardinality(minecraftUsers) = 2
    /\ \E r \in Req, c \in connections :
          /\ req[r].op = "linkDiscordAccount" /\ req[r].pc = "done"
          /\ req[r].result = "DatabaseError" /\ req[r].batches = 1
          /\ c.minecraftUserID \notin MinecraftUserIDs(req[r].uuid)

\* C5: when a link succeeds for a UUID, there is exactly one connection of
\* that UUID afterwards and it is bound to the account of this link, also
\* when the UUID's connection was bound to another account before.
C5_RelinkRepoints ==
    [][\A r \in Req :
        (Returns(r, "linkDiscordAccount") /\ req'[r].result = "Ok") =>
            LET mine == {c \in connections' : c.minecraftUserID \in req[r].mrec}
            IN /\ req[r].mrec = MinecraftUserIDs(req[r].uuid)
               /\ Cardinality(mine) = 1
               /\ \A c \in mine : c.discordUserID \in DiscordUserIDs(req[r].who)]_vars

\* The connection made by the first link (account d1, UUID u1) is bound to
\* account d2 after a second link for u1 has succeeded.
C5_Witness ==
    /\ \E r \in Req :
          /\ req[r].op = "linkDiscordAccount" /\ req[r].pc = "done"
          /\ req[r].result = "Ok" /\ req[r].uuid = "u1"
          /\ req[r].value = {[discordUsername |-> "d2"]}
    /\ \E c \in connections :
          /\ c.id = 1
          /\ c.minecraftUserID \in MinecraftUserIDs("u1")
          /\ c.discordUserID \in DiscordUserIDs("d2")
    /\ DiscordUserIDs("d1") # {}

\* C6: a linkDiscordAccount request that returned an error has committed
\* none of its writes.
C6_FailedLinkWritesNothing ==
    \A r \in Req :
        (req[r].op = "linkDiscordAccount" /\ req[r].pc = "done" /\ req[r].result # "Ok")
            => req[r].batches = 0

\* C7: two linkDiscordAccount requests with the same linking code never both
\* end with only their first batch committed.
C7_NoTwoPartialLinks ==
    \A r1, r2 \in Req :
        (/\ r1 # r2
         /\ req[r1].op = "linkDiscordAccount" /\ req[r2].op = "linkDiscordAccount"
         /\ req[r1].pc = "done" /\ req[r2].pc = "done"
         /\ req[r1].code = req[r2].code)
            => ~(req[r1].batches = 1 /\ req[r2].batches = 1)

\* C8: no two flow rows have the same linking code, and no UUID has two
\* unexpired flow rows.
C8_FlowsUnique ==
    /\ \A f, g \in verificationFlows : f.linkingCode = g.linkingCode => f = g
    /\ \A u \in UUIDs :
          Cardinality({f \in verificationFlows :
                          f.minecraftUUID = u /\ f.expiresAt > now}) <= 1

\* Two createVerificationFlow requests for one UUID have run side by side:
\* one inserted its flow, the other's insert was turned down, and the UUID
\* has one flow row.
C8_Witness ==
    \E r1, r2 \in Req :
        /\ req[r1].op = "createVerificationFlow" /\ req[r1].pc = "done"
        /\ req[r2].op = "createVerificationFlow" /\ req[r2].pc = "done"
        /\ req[r1].uuid = req[r2].uuid
        /\ req[r1].result = "Ok" /\ req[r2].result = "DatabaseError"
        /\ req[r2].code \in Codes /\ req[r2].code # req[r1].code
        /\ Cardinality({f \in verificationFlows : f.minecraftUUID = req[r1].uuid}) = 1
        /\ Cardinality(verificationFlows) = 2

\* C9: a createVerificationFlow request that starts when its UUID has an
\* unexpired flow, and returns success before that flow's expiry, returns
\* that flow's linking code and an expiry not before that flow's.
C9_SecondCallReturnsSameCode ==
    [][\A r \in Req :
        (/\ Returns(r, "createVerificationFlow") /\ req'[r].result = "Ok"
         /\ req[r].prior # {}
         /\ \A f \in req[r].prior : now < f.expiresAt)
            => \A f \in req[r].prior, v \in req'[r].value :
                  /\ v.linkingCode = f.linkingCode
                  /\ v.expiresAt >= f.expiresAt]_vars

\* C10: from a successful linkDiscordAccount for a linking code until a
\* later createVerificationFlow inserts a flow with that code, the table
\* holds no unexpired flow of the code, so neither getDiscordOAuthLink nor
\* linkDiscordAccount can resolve it.
C10_ConsumedCodeDoesNotResolve ==
    \A c \in consumed :
        ~ \E f \in verificationFlows : f.linkingCode = c /\ f.expiresAt > now

\* C11: a linkDiscordAccount request that returns AccessDenied does so at the
\* membership test, having written nothing, and the step changes no row, so
\* its flow is left as it was; a later request with the same code can succeed.
C11_AccessDeniedWritesNothing ==
    [][\A r \in Req :
        (Returns(r, "linkDiscordAccount") /\ req'[r].result = "AccessDenied") =>
            /\ req[r].pc = "guildMembershipResult"
            /\ req[r].flow # {}
            /\ req[r].batches = 0 /\ req'[r].batches = 0
            /\ UNCHANGED dbVars]_vars

\* A linkDiscordAccount request that started after one with the same code
\* had returned AccessDenied has succeeded.
C11_Witness ==
    \E r \in Req :
        /\ req[r].op = "linkDiscordAccount" /\ req[r].pc = "done"
        /\ req[r].result = "Ok" /\ "AccessDenied" \in req[r].prior

\* C12: when the flow lookup of linkDiscordAccount is answered, the request
\* returns InvalidLinkingCode exactly if no flow of the code is unexpired at
\* the request's time; it is returned nowhere else, no provider call has been
\* made by then, and nothing has been or is written.
C12_NoFlowInvalidLinkingCode ==
    [][\A r \in Req :
        LET live == {f \in verificationFlows :
                        f.linkingCode = req[r].code /\ f.expiresAt > req[r].now}
        IN /\ (/\ req[r].op = "linkDiscordAccount" /\ req[r].pc = "flowResult"
               /\ req'[r] # req[r] /\ req'[r].result # "DatabaseError")
                  => /\ (live = {}) <=> (req'[r].result = "InvalidLinkingCode")
                     /\ live = {} => req'[r].pc = "done"
           /\ (Returns(r, "linkDiscordAccount") /\ req'[r].result = "InvalidLinkingCode")
                  => /\ req[r].pc = "flowResult"
                     /\ req[r].tok = {} /\ req[r].batches = 0
                     /\ UNCHANGED <<dbVars, providerVars>>]_vars

\* A linkDiscordAccount request has returned InvalidLinkingCode while an
\* expired flow of its code is in the table.
C12_Witness ==
    \E r \in Req :
        /\ req[r].op = "linkDiscordAccount" /\ req[r].pc = "done"
        /\ req[r].result = "InvalidLinkingCode"
        /\ \E f \in verificationFlows : f.linkingCode = req[r].code /\ f.expiresAt <= now

\* C13: verifyConnection returns AccessDenied only after a guild list
\* without the configured guild and a delete of the connection it read, so
\* that row is gone; and a verifyConnection whose connection lookup is
\* answered when the UUID has no connection returns NotLinked.
C13_AccessDeniedDeletesConnection ==
    [][\A r \in Req :
        /\ (Returns(r, "verifyConnection") /\ req'[r].result = "AccessDenied") =>
              /\ req[r].pc = "deleteResult"
              /\ DISCORD_GUILD_ID \notin req[r].guilds
              /\ req[r].conn # {}
              /\ \A c \in req[r].conn :
                    /\ c.minecraftUserID \in MinecraftUserIDs(req[r].uuid)
                    /\ ~ \E d \in connections' : d.id = c.id
        /\ (/\ req[r].op = "verifyConnection" /\ req[r].pc = "connectionResult"
            /\ req'[r] # req[r] /\ req'[r].result # "DatabaseError"
            /\ ~ \E c \in connections : c.minecraftUserID \in MinecraftUserIDs(req[r].uuid))
              => req'[r].pc = "done" /\ req'[r].result = "NotLinked"]_vars

\* One verifyConnection for a UUID has returned AccessDenied, and another
\* for the same UUID, whose lookup came after the delete, NotLinked.
C13_Witness ==
    \E r1, r2 \in Req :
        /\ req[r1].op = "verifyConnection" /\ req[r1].pc = "done"
        /\ req[r1].result = "AccessDenied"
        /\ req[r2].op = "verifyConnection" /\ req[r2].pc = "done"
        /\ req[r2].result = "NotLinked" /\ req[r2].uuid = req[r1].uuid
        /\ MinecraftUserIDs(req[r1].uuid) # {}
        /\ connections = {}

C15_RefreshTokenStoredBeforeFetch ==
    [][\A r \in Req :
        /\ (req'[r].op = "verifyConnection" /\ req'[r].pc = "guildsResult"
            /\ req[r] # req'[r]) =>
              /\ req[r].op = "verifyConnection" /\ req[r].pc = "refreshUpdate"
              /\ req[r].tok # {} /\ req'[r].tok = req[r].tok
              /\ \A d \in req[r].duser, t \in req[r].tok :
                    \E u \in discordUsers' :
                        u.id = d.id /\ u.discordRefreshToken = t.refreshToken
        /\ (/\ req[r].op = "verifyConnection"
            /\ req[r].pc \in {"guildsResult", "deleteResult"}
            /\ req'[r] # req[r])
              => discordUsers' = discordUsers]_vars

\* A verifyConnection has ended in AccessDenied or in a failed membership
\* fetch, and the row holds the refresh token the provider issued last.
C15_Witness ==
    \E r \in Req, u \in discordUsers :
        /\ req[r].op = "verifyConnection" /\ req[r].pc = "done"
        /\ req[r].result \in {"AccessDenied", "DiscordError"}
        /\ u.discordRefreshToken # <<>>
        /\ u.discordRefreshToken[2] = 2
        /\ issuedToken[u.discordRefreshToken[1]] = 2

\* C16: a createVerificationFlow or verifyConnection request whose secret
\* is not the configured one returns InvalidSharedSecret on arrival, with no
\* datastore or provider call, whatever the UUID and the tables; one whose
\* secret is the configured one never returns it.
C16_WrongSecretRejectedAtOnce ==
    [][\A r \in Req :
        /\ (req'[r].op \in {"createVerificationFlow", "verifyConnection"}) =>
              ((req'[r].secret # SHARED_SECRET)
                  <=> (req'[r].pc = "done" /\ req'[r].result = "InvalidSharedSecret"))
        /\ (req'[r].result = "InvalidSharedSecret" /\ req'[r] # req[r]) =>
              /\ Free(r)
              /\ UNCHANGED <<dbVars, providerVars>>]_vars

\* Both operations have turned down a wrong secret, one of the right length
\* and one shorter, for different UUIDs.
C16_Witness ==
    \E r1, r2 \in Req :
        /\ req[r1].op = "createVerificationFlow" /\ req[r2].op = "verifyConnection"
        /\ req[r1].result = "InvalidSharedSecret" /\ req[r2].result = "InvalidSharedSecret"
        /\ req[r1].uuid # req[r2].uuid
        /\ Len(req[r1].secret) = Len(SHARED_SECRET) /\ Len(req[r2].secret) # Len(SHARED_SECRET)
        /\ connections # {}

\* C19: a getDiscordOAuthLink request whose lookup is answered succeeds
\* exactly if the table holds a flow of its code with expiresAt after the
\* request's time; the state of the URL it returns decodes to that code;
\* and no step of the request changes a row.
C19_OAuthLinkIffActiveFlow ==
    [][\A r \in Req :
        LET live == {f \in verificationFlows :
                        f.linkingCode = req[r].code /\ f.expiresAt > req[r].now}
        IN /\ (/\ req[r].op = "getDiscordOAuthLink" /\ req[r].pc # "done"
               /\ req'[r] # req[r]) =>
                 /\ req[r].pc = "dbResult" /\ req'[r].pc = "done"
                 /\ req'[r].result = "Ok" => live # {}
                 /\ (live # {} /\ req'[r].result # "DatabaseError") => req'[r].result = "Ok"
                 /\ req'[r].result = "Ok" =>
                       \A v \in req'[r].value :
                          /\ decodeOAuthState(v.state) # {}
                          /\ \A d \in decodeOAuthState(v.state) :
                                d.linkingCode = req[r].code /\ d.timestamp = req[r].now
                 /\ req'[r].result = "Ok" => req'[r].value # {}
                 /\ UNCHANGED dbVars
           /\ (req'[r].op = "getDiscordOAuthLink" /\ req'[r] # req[r]) => UNCHANGED dbVars]_vars

\* One request has got its URL for a code, and a later one for the same
\* code, whose flow is still in the table but expired, was turned down.
C19_Witness ==
    \E r1, r2 \in Req :
        /\ req[r1].op = "getDiscordOAuthLink" /\ req[r1].result = "Ok"
        /\ req[r2].op = "getDiscordOAuthLink" /\ req[r2].result = "InvalidLinkingCode"
        /\ req[r1].code = req[r2].code
        /\ \E f \in verificationFlows :
              f.linkingCode = req[r2].code /\ f.expiresAt = now

\* C17: a finished handleRPC call has answered by the first check its
\* request fails, in the order body, envelope, method, parameters, handler:
\* parseError, invalidRequest, methodNotFound, invalidParams, internalError;
\* when none fails the response carries what the handler resolved to, a
\* success or a domain error alike, as its result and has no error.  The
\* handler is called only for a request that passes the first four checks.
C17_FirstFailingCheckClassifies ==
    LET v == rpc.request.value
        bodyOK == rpc.request.readable /\ rpc.request.json
        envelopeOK == bodyOK /\ RPCRequestSchema(v)
        methodOK == envelopeOK /\ v.method.s \in RPC_HANDLERS
        paramsOK == methodOK /\ ParamsSchema(v.method.s, v.params)
        resolved == paramsOK /\ \E h \in rpc.handlerResult : h.state = "fulfilled"
        code(resp) == {e.code : e \in resp.error}
    IN /\ rpc.pc = "handlerResult" => paramsOK /\ rpc.method = v.method.s
       /\ rpc.pc = "done" =>
             \A resp \in rpc.response :
                /\ ~ bodyOK => code(resp) = {-32700}
                /\ (bodyOK /\ ~ envelopeOK) => code(resp) = {-32600}
                /\ (envelopeOK /\ ~ methodOK) => code(resp) = {-32601}
                /\ (methodOK /\ ~ paramsOK) => code(resp) = {-32602}
                /\ (paramsOK /\ ~ resolved) => code(resp) = {-32603}
                /\ ~ paramsOK => rpc.handlerResult = {}
                /\ resolved => /\ resp.error = {}
                               /\ \A h \in rpc.handlerResult : resp.result = h.value

\* A call has finished with a domain error of verifyConnection as the result
\* of its response.
C17_Witness ==
    /\ rpc.pc = "done" /\ rpc.method = "verifyConnection"
    /\ \E resp \in rpc.response :
          resp.error = {} /\ resp.result = {ResultErr("NotLinked")}

\* C18: handleRPC never ends in a failure of its own; it has a response
\* exactly when it has finished, one envelope with jsonrpc 2.0 and with one
\* of result and error; the id is null when the body was no JSON or the
\* envelope did not validate, null when the request had no id, and the
\* request's id otherwise.
C18_OneEnvelopeWithRequestId ==
    LET v == rpc.request.value
        envelopeOK == rpc.request.readable /\ rpc.request.json /\ RPCRequestSchema(v)
    IN /\ rpc.pc # "rejected"
       /\ (rpc.pc = "done") <=> (rpc.response # {})
       /\ Cardinality(rpc.response) <= 1
       /\ \A resp \in rpc.response :
             /\ resp.jsonrpc = "2.0"
             /\ Cardinality(resp.result) + Cardinality(resp.error) = 1
             /\ resp.id = IF envelopeOK /\ v.id # Undefined THEN v.id ELSE Null

\* A call whose handler failed has answered internalError under the
\* request's id, a number.
C18_Witness ==
    /\ rpc.pc = "done"
    /\ rpc.handlerResult = {Settled("rejected", {})}
    /\ \E resp \in rpc.response :
          /\ resp.id = JsonNumber(1)
          /\ resp.error = {RPCStandardErrorObjects.internalError}
          /\ resp.result = {}

\* C20: the deadline of a discordFetch call is startTime + timeoutMs and
\* does not move; an attempt starts only with time left, its timer due at
\* the deadline, and a turn of the loop that finds no time left returns
\* timeout; when the timer fires the call returns timeout at the deadline,
\* and no result is taken after the deadline; and a sleep is always set to
\* end before the deadline.
C20_SingleDeadline ==
    [][/\ fetch'.pc # "idle" =>
            /\ fetch'.maxEndTime = fetch'.startTime + fetch'.timeoutMs
            /\ fetch.pc # "idle" =>
                  /\ fetch'.maxEndTime = fetch.maxEndTime
                  /\ fetch'.startTime = fetch.startTime
       /\ (fetch'.pc = "inner" /\ fetch.pc # "inner") =>
            /\ now' < fetch'.maxEndTime
            /\ fetch'.timer = {fetch'.maxEndTime}
       /\ (/\ fetch.pc \in {"idle", "sleep"} /\ fetch' # fetch
           /\ fetch'.maxEndTime - now' <= 0) =>
            fetch'.pc = "done" /\ fetch'.result = "timeout"
       /\ (fetch.pc = "inner" /\ fetch' # fetch) =>
            /\ now' <= fetch.maxEndTime
            /\ fetch'.wasAborted =>
                  /\ now' = fetch.maxEndTime
                  /\ fetch'.pc = "done" /\ fetch'.result = "timeout"
       /\ fetch'.pc = "sleep" =>
            \A t \in fetch'.sleepUntil : now' <= t /\ t < fetch'.maxEndTime
       /\ fetch'.pc = "sleep" => fetch'.sleepUntil # {}]_vars

\* A call has slept between attempts, and its second or later attempt was
\* aborted at the deadline.
C20_Witness ==
    /\ fetch.pc = "done" /\ fetch.result = "timeout"
    /\ fetch.wasAborted /\ fetch.attempt >= 2
    /\ fetch.timeoutMs = 5000 /\ fetch.retries = 3
    /\ now = fetch.maxEndTime

\* C21: a discordFetch call makes at most retries + 1 attempts and sleeps
\* only when another attempt is allowed; a call whose last attempt was
\* retryable or aborted ends with timeout or retries-exhausted, never with
\* success; and every call ends.
C21_RetryableEndpointTerminates ==
    /\ [](/\ fetch.pc = "inner" => fetch.attempt <= fetch.retries + 1
          /\ fetch.pc = "sleep" => fetch.attempt <= fetch.retries
          /\ (fetch.pc = "done" /\ \A i \in fetch.inner : i.kind = "retry")
                => fetch.result \in {"timeout", "retries-exhausted"})
    /\ <>(fetch.pc = "done")

\* A call with three retries has made its four attempts, all answered by a
\* retryable response, and has ended with retries-exhausted.
C21_Witness ==
    /\ fetch.pc = "done" /\ fetch.result = "retries-exhausted"
    /\ fetch.retries = 3 /\ fetch.attempt = 4
    /\ ~ fetch.wasAborted
    /\ \E i \in fetch.inner : i.kind = "retry"

\* C22: discordFetch sleeps for another attempt, and starts one, only after
\* a response that is a transport failure, a 429 or a 5xx; any other
\* response ends the call in that step, with success, the status and the
\* parsed body when the body is JSON and with invalid-json when it is not;
\* and a call that has ended makes no further step.
C22_RetryOnlyRetryable ==
    [][LET retryable(r) == \/ r.kind = "network-error"
                           \/ r.status = 429
                           \/ (r.status >= 500 /\ r.status < 600)
       IN /\ (fetch.pc = "inner" /\ fetch' # fetch /\ ~ fetch'.wasAborted) =>
                /\ fetch'.response # {}
                /\ \A r \in fetch'.response :
                      /\ fetch'.pc = "sleep" => retryable(r)
                      /\ ~ retryable(r) =>
                            /\ fetch'.pc = "done" /\ fetch'.attempt = fetch.attempt
                            /\ IF r.body.json
                               THEN /\ fetch'.result = "success"
                                    /\ fetch'.statusCode = r.status
                                    /\ \A i \in fetch'.inner : i.data = r.body
                               ELSE fetch'.result = "invalid-json"
          /\ (fetch.pc = "sleep" /\ fetch'.pc = "inner") =>
                \A r \in fetch.response : retryable(r)
          /\ fetch.pc = "done" => fetch' = fetch]_vars

\* A call has ended with invalid-json at its second or a later attempt, on
\* a status 401 with a body that is no JSON.
C22_Witness ==
    /\ fetch.pc = "done" /\ fetch.result = "invalid-json" /\ fetch.attempt >= 2
    /\ \E r \in fetch.response : r.status = 401 /\ ~ r.body.json

\* C23 as stated: after every attempt that yields a retry with a delay,
\* discordFetch sleeps exactly that delay or, when the delay would reach
\* the deadline, returns timeout.
C23_HintSleepsOrTimesOut ==
    [][(fetch.pc = "inner" /\ fetch' # fetch /\ ~ fetch'.wasAborted) =>
          \A i \in fetch'.inner :
             (i.kind = "retry" /\ i.afterMs # {}) =>
                \A a \in i.afterMs :
                   IF now' + a >= fetch.maxEndTime
                   THEN fetch'.pc = "done" /\ fetch'.result = "timeout"
                   ELSE fetch'.pc = "sleep" /\ fetch'.sleepUntil = {now' + a}]_vars

\* C23, amended: after an attempt that yields a retry with a delay while
\* another attempt is allowed (attempt <= retries), discordFetch sleeps
\* exactly that delay, the next attempt starting when the sleep ends, or,
\* when the delay would reach the deadline, returns timeout; after the last
\* allowed attempt it returns retries-exhausted, whatever the delay.
C23_HintSleepsOrTimesOutWhileRetriesLeft ==
    [][/\ (fetch.pc = "inner" /\ fetch' # fetch /\ ~ fetch'.wasAborted) =>
             \A i \in fetch'.inner :
                (i.kind = "retry" /\ i.afterMs # {}) =>
                   \A a \in i.afterMs :
                      IF fetch.attempt > fetch.retries
                      THEN fetch'.pc = "done" /\ fetch'.result = "retries-exhausted"
                      ELSE IF now' + a >= fetch.maxEndTime
                      THEN fetch'.pc = "done" /\ fetch'.result = "timeout"
                      ELSE fetch'.pc = "sleep" /\ fetch'.sleepUntil = {now' + a}
       /\ (fetch.pc = "sleep" /\ fetch' # fetch) =>
             /\ fetch.sleepUntil = {now'}
             /\ fetch'.attempt = fetch.attempt + 1]_vars

\* A call sleeps the 1000 ms that a 429 with Retry-After: 1 asked for.
C23_Witness ==
    /\ fetch.pc = "sleep" /\ fetch.sleepUntil = {now + 1000}
    /\ \E r \in fetch.response :
          r.status = 429 /\ r.retryAfter = RetryAfter("seconds", 1)
    /\ \E i \in fetch.inner : i.afterMs = {1000}

\* C24: after an attempt n that yields a retry without a delay while
\* another attempt is allowed, the backoff is the smaller of
\* 500 * 2^(n-1) * jitter, with a jitter between 0.85 and 1.15, and the time
\* that remains less 100 ms; when it is <= 0 the call returns
\* retries-exhausted, and otherwise the call sleeps exactly that long.
C24_BackoffCappedByRemaining ==
    [][(/\ fetch.pc = "inner" /\ fetch' # fetch /\ ~ fetch'.wasAborted
        /\ fetch.attempt <= fetch.retries) =>
          \A i \in fetch'.inner :
             (i.kind = "retry" /\ i.afterMs = {}) =>
                \E jitter \in 85..115 :
                   LET backoffMs ==
                          Min((500 * Pow2(fetch.attempt - 1) * jitter) \div 100,
                              fetch.maxEndTime - now' - 100)
                   IN IF backoffMs <= 0
                      THEN fetch'.pc = "done" /\ fetch'.result = "retries-exhausted"
                      ELSE fetch'.pc = "sleep" /\ fetch'.sleepUntil = {now' + backoffMs}]_vars

\* A call sleeps after its second or a later attempt for all the time that
\* remains less the buffer, the backoff being longer than that.
C24_Witness ==
    /\ fetch.pc = "sleep" /\ fetch.attempt >= 2
    /\ fetch.sleepUntil = {fetch.maxEndTime - EXTRA_BUFFER_MS}
    /\ \E i \in fetch.inner : i.afterMs = {}
    /\ (500 * Pow2(fetch.attempt - 1) * JITTER_MIN) \div 100
          > fetch.maxEndTime - EXTRA_BUFFER_MS - now

\* C25 as stated: a token call that ends on a response with a non-retryable
\* status yields invalid-auth for status 401 whatever the body; otherwise
\* an error body with invalid_grant yields invalid-code for the code
\* exchange and invalid-auth for the refresh, another error body
\* unknown-error, a token body success, and any other body
\* unexpected-response.
C25_TokenClassification ==
    (/\ fetch.pc = "done"
     /\ fetch.caller \in {"createDiscordOAuth2TokenWithCode",
                          "createDiscordOAuth2TokenWithRefreshToken"}
     /\ fetch.result \in {"success", "invalid-json"}) =>
       \A r \in fetch.response :
          fetch.outcome =
             IF r.status = 401 THEN "invalid-auth"
             ELSE IF r.body.error = "invalid_grant"
             THEN IF fetch.caller = "createDiscordOAuth2TokenWithCode"
                  THEN "invalid-code" ELSE "invalid-auth"
             ELSE IF r.body.error # "" THEN "unknown-error"
             ELSE IF r.body.token THEN "success"
             ELSE "unexpected-response"

\* C25, amended: a token call that ends on a response with a non-retryable
\* status yields invalid-json when the body is not JSON, whatever the
\* status; for a JSON body it yields invalid-auth for status 401 whatever
\* the body, otherwise success for a token body, otherwise for an error body
\* with invalid_grant invalid-code (code exchange) or invalid-auth (refresh),
\* for another error body unknown-error, and for any other body
\* unexpected-response.
C25_TokenClassificationOfJsonBodies ==
    (/\ fetch.pc = "done"
     /\ fetch.caller \in {"createDiscordOAuth2TokenWithCode",
                          "createDiscordOAuth2TokenWithRefreshToken"}
     /\ fetch.result \in {"success", "invalid-json"}) =>
       \A r \in fetch.response :
          fetch.outcome =
             IF ~ r.body.json THEN "invalid-json"
             ELSE IF r.status = 401 THEN "invalid-auth"
             ELSE IF r.body.token THEN "success"
             ELSE IF r.body.error = "invalid_grant"
             THEN IF fetch.caller = "createDiscordOAuth2TokenWithCode"
                  THEN "invalid-code" ELSE "invalid-auth"
             ELSE IF r.body.error # "" THEN "unknown-error"
             ELSE "unexpected-response"

\* A refresh ended with invalid-auth on a status 400 whose body is the
\* error invalid_grant.
C25_Witness ==
    /\ fetch.pc = "done" /\ fetch.caller = "createDiscordOAuth2TokenWithRefreshToken"
    /\ fetch.outcome = "invalid-auth"
    /\ \E r \in fetch.response :
          r.status = 400 /\ r.body.json /\ r.body.error = "invalid_grant" /\ ~ r.body.token

\* C26: a revoke that ends on a response with a 2xx status succeeds,
\* whatever the body.
C26_RevokeSucceedsOnAny2xx ==
    (/\ fetch.pc = "done" /\ fetch.caller = "revokeDiscordOAuth2Token"
     /\ fetch.result \in {"success", "invalid-json"}) =>
       \A r \in fetch.response :
          (r.status >= 200 /\ r.status <= 299) => fetch.outcome = "success"

\* C27 as stated: a profile or guilds call that ends on a response with a
\* non-retryable status yields invalid-auth for status 401 and
\* insufficient-permissions for status 403 whatever the body, and otherwise
\* unexpected-response for a body that has not the shape of the data.
C27_StatusBeforeBody ==
    (/\ fetch.pc = "done"
     /\ fetch.caller \in {"fetchDiscordUserData", "fetchDiscordUserGuildsData"}
     /\ fetch.result \in {"success", "invalid-json"}) =>
       \A r \in fetch.response :
          LET shaped == IF fetch.caller = "fetchDiscordUserData"
                        THEN r.body.user ELSE r.body.guilds # {}
          IN /\ r.status = 401 => fetch.outcome = "invalid-auth"
             /\ r.status = 403 => fetch.outcome = "insufficient-permissions"
             /\ (r.status \notin {401, 403} /\ ~ shaped) =>
                   fetch.outcome = "unexpected-response"

\* C27, amended: a profile or guilds call that ends on a response with a
\* non-retryable status yields invalid-json when the body is not JSON,
\* whatever the status; for a JSON body it yields invalid-auth for status
\* 401 and insufficient-permissions for status 403 whatever the body, and
\* otherwise unexpected-response for a body that has not the shape of the
\* data.
C27_StatusBeforeJsonBody ==
    (/\ fetch.pc = "done"
     /\ fetch.caller \in {"fetchDiscordUserData", "fetchDiscordUserGuildsData"}
     /\ fetch.result \in {"success", "invalid-json"}) =>
       \A r \in fetch.response :
          LET shaped == IF fetch.caller = "fetchDiscordUserData"
                        THEN r.body.user ELSE r.body.guilds # {}
          IN /\ ~ r.body.json => fetch.outcome = "invalid-json"
             /\ (r.body.json /\ r.status = 401) => fetch.outcome = "invalid-auth"
             /\ (r.body.json /\ r.status = 403) =>
                   fetch.outcome = "insufficient-permissions"
             /\ (r.body.json /\ r.status \notin {401, 403} /\ ~ shaped) =>
                   fetch.outcome = "unexpected-response"

\* A guilds call ended with insufficient-permissions on a status 403 whose
\* body is a list of guilds.
C27_Witness ==
    /\ fetch.pc = "done" /\ fetch.caller = "fetchDiscordUserGuildsData"
    /\ fetch.outcome = "insufficient-permissions"
    /\ \E r \in fetch.response : r.status = 403 /\ r.body.guilds # {}

\* C28: in the generation loop of createVerificationFlow, whenever the
\* datastore answers, a code that collides with a row expired at the
\* request's now has that row deleted and the flow inserted under the same
\* code, never returning CodeGenerationFailed; a code that collides with a
\* live row starts the next attempt; CodeGenerationFailed is returned exactly
\* by the fifth collision with a live row, the attempts before it having
\* collided with live rows too; the attempts add no row, only the insertion
\* does, and it never returns CodeGenerationFailed.
C28_GenerationLoop ==
    [][\A r \in Req :
          (req[r].op = "createVerificationFlow" /\ req'[r] # req[r]) =>
             LET codeEntry == {f \in verificationFlows : f.linkingCode = req[r].code}
                 live == \E f \in codeEntry : f.expiresAt > req[r].now
                 answered == req'[r].result # "DatabaseError"
             IN /\ req[r].pc = "existingCode" =>
                     /\ req[r].attempt < MAX_CODE_GENERATION_ATTEMPTS
                     /\ verificationFlows' = verificationFlows
                     /\ req'[r].result = "CodeGenerationFailed" =>
                           live /\ req[r].attempt = MAX_CODE_GENERATION_ATTEMPTS - 1
                     /\ (answered /\ live) =>
                           IF req[r].attempt = MAX_CODE_GENERATION_ATTEMPTS - 1
                           THEN req'[r].result = "CodeGenerationFailed"
                           ELSE /\ req'[r].pc = "existingCode"
                                /\ req'[r].attempt = req[r].attempt + 1
                     /\ (answered /\ codeEntry # {} /\ ~ live) =>
                           /\ req'[r].pc = "deleteColliding"
                           /\ req'[r].flow = codeEntry
                           /\ req'[r].code = req[r].code
                           /\ req'[r].attempt = req[r].attempt
                     /\ (answered /\ codeEntry = {}) =>
                           /\ req'[r].pc = "insertion"
                           /\ req'[r].code = req[r].code
                           /\ req'[r].attempt = req[r].attempt
                /\ req[r].pc = "deleteColliding" =>
                     /\ req'[r].result # "CodeGenerationFailed"
                     /\ verificationFlows' \subseteq verificationFlows
                     /\ answered =>
                           /\ \A f \in req[r].flow, g \in verificationFlows' : g.id # f.id
                           /\ req'[r].pc = "insertion"
                           /\ req'[r].code = req[r].code
                /\ req[r].pc = "insertion" =>
                     /\ req'[r].result \in {"Ok", "DatabaseError"}
                     /\ req'[r].result = "Ok" =>
                           \E f \in verificationFlows' \ verificationFlows :
                              /\ f.linkingCode = req[r].code
                              /\ f.minecraftUUID = req[r].uuid
                              /\ req'[r].value =
                                    {[linkingCode |-> f.linkingCode,
                                      expiresAt |-> f.expiresAt]}
      ]_vars

\* A request returned CodeGenerationFailed while a live row holds every
\* code and no row is bound to the request's UUID.
C28_Witness ==
    \E r \in Req :
       /\ req[r].op = "createVerificationFlow" /\ req[r].pc = "done"
       /\ req[r].result = "CodeGenerationFailed"
       /\ \A f \in verificationFlows : f.minecraftUUID # req[r].uuid
       /\ \E f \in verificationFlows : f.expiresAt > now

\* C29: generateLinkingCode returns 8 symbols of a..z and 0..9; every byte
\* it reads adds a symbol exactly when the byte is below 252, and the symbol
\* is the one at place byte mod 36 of the alphabet; so each of the 36
\* symbols is the image of exactly 7 of the accepted bytes.
C29_EightUnbiasedSymbols ==
    [][LET alphabet == <<"a", "b", "c", "d", "e", "f", "g", "h", "i", "j", "k", "l",
                         "m", "n", "o", "p", "q", "r", "s", "t", "u", "v", "w", "x",
                         "y", "z", "0", "1", "2", "3", "4", "5", "6", "7", "8", "9">>
       IN (gen.pc = "loop" /\ gen' # gen) =>
             /\ \A b \in gen'.byte :
                   gen'.code = IF b < 252 THEN Append(gen.code, alphabet[(b % 36) + 1])
                               ELSE gen.code
             /\ (gen'.pc = "done") <=> (Len(gen'.code) = 8)
             /\ Len(gen'.code) <= 8
             /\ \A i \in 1..Len(gen'.code) : \E k \in 1..36 : gen'.code[i] = alphabet[k]
             /\ maxValid = 252 /\ maxValid = 256 - (256 % 36)
             /\ \A k \in 1..36 :
                   Cardinality({b \in 0..255 :
                                   b < maxValid /\ CHARS[(b % charsLength) + 1] = alphabet[k]})
                      = 7]_vars

\* A call returned its 8 symbols after it had read and dropped a byte of
\* 252 or more.
C29_Witness ==
    /\ gen.pc = "done" /\ Len(gen.code) = LENGTH
    /\ \E i \in 1..gen.arrayIndex : gen.array[i] >= 252

C31_MalformedStateRejected ==
    \A r \in Req :
       (/\ req[r].op = "linkDiscordAccount"
        /\ \/ \A i \in 1..Len(req[r].state) : req[r].state[i][1] # "linkingCode"
           \/ \A i \in 1..Len(req[r].state) :
                 req[r].state[i][1] = "timestamp" => req[r].state[i][2].kind # "number")
          => req[r].pc = "done" /\ req[r].result = "InvalidState"

\* C32: every step of a createVerificationFlow or a getDiscordOAuthLink
\* leaves discordUsers, minecraftUsers and connections as they are; every
\* step of a verifyConnection leaves verificationFlows and minecraftUsers as
\* they are and adds no connection; a step that adds a verificationFlows
\* row belongs to a createVerificationFlow, and a step that adds a
\* discordUsers, minecraftUsers or connections row to a linkDiscordAccount.
C32_TableOwnership ==
    [][\A r \in Req :
          req'[r] # req[r] =>
             /\ req'[r].op \in {"createVerificationFlow", "getDiscordOAuthLink"} =>
                   UNCHANGED <<discordUsers, minecraftUsers, connections>>
             /\ req'[r].op = "verifyConnection" =>
                   /\ UNCHANGED <<verificationFlows, minecraftUsers>>
                   /\ connections' \subseteq connections
             /\ (\E f \in verificationFlows' : \A g \in verificationFlows : g.id # f.id)
                   => req'[r].op = "createVerificationFlow"
             /\ (\/ \E d \in discordUsers' : \A e \in discordUsers : e.id # d.id
                 \/ \E m \in minecraftUsers' : \A n \in minecraftUsers : n.id # m.id
                 \/ \E c \in connections' : \A d \in connections : d.id # c.id)
                   => req'[r].op = "linkDiscordAccount"]_vars

\* A verifyConnection has deleted its connection and stored a new refresh
\* token, while the minecraftUsers row of its UUID and a verificationFlows
\* row are still there.
C32_Witness ==
    \E r \in Req :
       /\ req[r].op = "verifyConnection" /\ req[r].pc = "done"
       /\ req[r].result = "AccessDenied"
       /\ verificationFlows # {}
       /\ \E m \in minecraftUsers :
             /\ m.minecraftUUID = req[r].uuid
             /\ \A c \in connections : c.minecraftUserID # m.id

\* C33: a step of a createVerificationFlow removes a verificationFlows row
\* of the requested UUID only when the row is expired at that time, so an
\* unexpired flow that one request created is never deleted by another.
C33_DeletesOnlyExpiredFlows ==
    [][\A r \in Req :
          (req'[r] # req[r] /\ req'[r].op = "createVerificationFlow") =>
             \A f \in verificationFlows :
                (/\ f.minecraftUUID = req'[r].uuid
                 /\ \A g \in verificationFlows' : g.id # f.id)
                   => f.expiresAt <= now]_vars

\* C34: when a createVerificationFlow that took less than the lifetime of a
\* flow returns success, the table holds a row with the returned linking
\* code that is bound to the requested UUID and unexpired at that moment.
C34_ReturnedCodeIdentifiesLiveFlow ==
    [][\A r \in Req :
          (/\ Returns(r, "createVerificationFlow") /\ req'[r].result = "Ok"
           /\ now' - req[r].now < EXPIRY_DURATION_MS) =>
             \A v \in req'[r].value :
                \E f \in verificationFlows' :
                   /\ f.linkingCode = v.linkingCode
                   /\ f.minecraftUUID = req'[r].uuid
                   /\ f.expiresAt > now']_vars

\* C35: no two linkDiscordAccount requests have returned success for the
\* same verificationFlows row.
C35_LinkingCodeSingleUse ==
    \A r1, r2 \in Req :
       (/\ r1 # r2
        /\ req[r1].op = "linkDiscordAccount" /\ req[r1].pc = "done"
        /\ req[r1].result = "Ok"
        /\ req[r2].op = "linkDiscordAccount" /\ req[r2].pc = "done"
        /\ req[r2].result = "Ok")
          => \A f1 \in req[r1].flow, f2 \in req[r2].flow : f1.id # f2.id

\* C36: a connection that a step of a verifyConnection removes is bound, at
\* that moment, to the discordUsers row that the request read with it and
\* whose guilds it fetched.
C36_DeletesOnlyTheConnectionVerified ==
    [][\A r \in Req :
          (req[r].op = "verifyConnection" /\ req'[r] # req[r]) =>
             \A c \in connections :
                (\A d \in connections' : d.id # c.id) =>
                   \A k \in req[r].conn : c.discordUserID = k.discordUserID]_vars

\* C37: whenever no request is in flight, the refresh token stored in a
\* discordUsers row is the one the provider issued last for the account, so
\* no later issue has made it invalid.
C37_StoredRefreshTokenIsCurrent ==
    (\A r \in Req : req[r].pc \in {"idle", "done"}) =>
       \A u \in discordUsers :
          u.discordRefreshToken # <<>> =>
             u.discordRefreshToken[2] = issuedToken[u.discordRefreshToken[1]]

\* C38: when a linkDiscordAccount reaches its connection batch with a
\* discordUsers row that has a connection to the minecraftUsers row of
\* another UUID, the request returns DatabaseError and the batch changes
\* neither the connections nor the verificationFlows: the connection stays
\* as it was, the account gets no second one, the flow is not deleted.
C38_SecondUuidForAccountRejected ==
    [][\A r \in Req :
          (/\ req[r].op = "linkDiscordAccount" /\ req[r].pc = "connection"
           /\ req'[r] # req[r]
           /\ \E c \in connections, d \in req[r].drec, m \in req[r].mrec :
                 c.discordUserID = d /\ c.minecraftUserID # m) =>
             /\ req'[r].pc = "done" /\ req'[r].result = "DatabaseError"
             /\ connections' = connections
             /\ verificationFlows' = verificationFlows
             /\ \A d \in req[r].drec :
                   Cardinality({c \in connections' : c.discordUserID = d}) = 1]_vars

\* A linkDiscordAccount returned DatabaseError after its first batch: its
\* flow is still in the table, the minecraftUsers row of its UUID has no
\* connection, and every discordUsers row has a connection to another UUID.
C38_Witness ==
    \E r \in Req :
       /\ req[r].op = "linkDiscordAccount" /\ req[r].pc = "done"
       /\ req[r].result = "DatabaseError" /\ req[r].batches = 1
       /\ \E f \in verificationFlows :
             f.linkingCode = req[r].code /\ f.minecraftUUID = req[r].uuid
       /\ \E m \in minecraftUsers :
             /\ m.minecraftUUID = req[r].uuid
             /\ \A c \in connections : c.minecraftUserID # m.id
             /\ \A d \in discordUsers :
                   \E c \in connections : c.discordUserID = d.id

\* C39: the four lookups of a flow decide by the same test, expiresAt
\* strictly after the request's now.  When the datastore answers, the reuse
\* lookup of createVerificationFlow goes on to the update exactly if a flow
\* of the UUID passes the test; its collision check retries or gives up
\* exactly if the row of the code passes it and deletes the row exactly if
\* it fails it; getDiscordOAuthLink succeeds, and linkDiscordAccount goes on
\* to the token exchange, exactly if a flow of the code passes it.
C39_SameExpiryTestEverywhere ==
    [][\A r \in Req :
        LET ofUuid == {f \in verificationFlows : f.minecraftUUID = req[r].uuid}
            ofCode == {f \in verificationFlows : f.linkingCode = req[r].code}
            active(rows) == \E f \in rows : f.expiresAt > req[r].now
            answered == req'[r] # req[r] /\ req'[r].result # "DatabaseError"
        IN /\ (/\ req[r].op = "createVerificationFlow" /\ req[r].pc = "existingFlow"
               /\ answered) =>
                 /\ req'[r].pc = "update" <=> active(ofUuid)
                 /\ req'[r].pc = "deletion" <=> ~active(ofUuid)
           /\ (/\ req[r].op = "createVerificationFlow" /\ req[r].pc = "existingCode"
               /\ answered) =>
                 /\ req'[r].pc = "insertion" <=> ofCode = {}
                 /\ req'[r].pc = "deleteColliding" <=> (ofCode # {} /\ ~active(ofCode))
                 /\ (\/ req'[r].pc = "existingCode"
                     \/ req'[r].result = "CodeGenerationFailed") <=> active(ofCode)
           /\ (/\ req[r].op = "getDiscordOAuthLink" /\ req[r].pc = "dbResult"
               /\ answered) =>
                 /\ req'[r].result = "Ok" <=> active(ofCode)
                 /\ req'[r].result = "InvalidLinkingCode" <=> ~active(ofCode)
           /\ (/\ req[r].op = "linkDiscordAccount" /\ req[r].pc = "flowResult"
               /\ answered) =>
                 /\ req'[r].pc = "tokenResult" <=> active(ofCode)
                 /\ req'[r].result = "InvalidLinkingCode" <=> ~active(ofCode)]_vars

\* At the instant a flow expires, a createVerificationFlow of its UUID has
\* passed the reuse lookup without reusing it, and a linkDiscordAccount of
\* its code has been turned down.
C39_Witness ==
    \E r1, r3 \in Req : \E f \in verificationFlows :
        /\ f.expiresAt = now
        /\ req[r1].op = "createVerificationFlow" /\ req[r1].pc = "deletion"
        /\ req[r1].uuid = f.minecraftUUID /\ req[r1].now = now
        /\ req[r3].op = "linkDiscordAccount" /\ req[r3].pc = "done"
        /\ req[r3].result = "InvalidLinkingCode" /\ req[r3].code = f.linkingCode
====
